---- MODULE Spec2Model ----
(***************************************************************************)
(* Model of the bulk-operation core of MGNBot:                             *)
(*   - src/src/utils/async_utils.py : RateLimiter and                      *)
(*     run_concurrent_with_rate_limit (asyncio tasks on one event loop,    *)
(*     mapping function run on the loop's thread pool);                    *)
(*   - src/src/aws/mgn_client.py    : launch_test_instances and            *)
(*     terminate_test_instances;                                           *)
(*   - src/src/ui/main_window.py    : the launch/terminate worker threads  *)
(*     that fold the client's result into a BulkOperationProgress;         *)
(*   - src/src/models/server.py     : BulkOperationProgress.               *)
(* Python lists are 0-based; the sequences below are 1-based, so unit u    *)
(* of the model is index u-1 of the code.                                  *)
(***************************************************************************)
EXTENDS Integers, Sequences, FiniteSets, TLC

(***************************************************************************)
(* Bounds of the model.                                                    *)
(***************************************************************************)
\* largest len(items) of a run without a rate limiter
MaxItems == 3
\* largest len(items) of a run with a rate limiter
MaxLimitedItems == 2
\* largest number of coroutines calling acquire() on one RateLimiter
MaxCallers == 3
\* the clock (time.time(), in ticks) stops advancing here
MaxClock == 3
\* largest number of server ids given to a bulk operation
MaxServers == 3
\* largest len(items) of a run_concurrent_sync call
MaxSyncItems == 3
\* how many times _parse_source_server is applied to the same record
MaxParses == 2
\* largest number of entries in a describe_source_servers response
MaxRecords == 3
MaxListed == 2

\* values of max_concurrent, RateLimiter.max_calls and RateLimiter.time_window
ConcurrencyChoices == {1, 2}
MaxCallsChoices == {1, 2}
TimeWindowChoices == {2}
\* values of time_window when the RateLimiter is exercised on its own
LimiterWindowChoices == {1, 2, 3}

VARIABLES
    \* ---- run_concurrent_with_rate_limit --------------------------------
    n_items,        \* len(items)
    max_concurrent, \* the max_concurrent argument
    rate_limit,     \* the rate_limit argument: [present, max_calls, time_window]
    calls,          \* RateLimiter.calls
    clock,          \* time.time()
    sem_value,      \* free slots of the asyncio.Semaphore
    task,           \* position of each process_with_semaphore task
    wake_at,        \* when the asyncio.sleep of a waiting task ends
    outcome,        \* what func did for each unit, once it has finished
    invocations,    \* how often func was invoked for each unit
    completed,      \* the nonlocal counter of process_item
    progress_calls, \* the arguments of every progress_callback call, in order
    done_queue,     \* finished tasks that as_completed has not yielded yet
    results,        \* the results list
    collected,      \* number of tasks the as_completed loop has consumed
    returned,       \* the call has returned results
    \* ---- history of the run (not program state) ------------------------
    admissions,     \* every timestamp ever appended to RateLimiter.calls
    admitted_at,    \* per unit, the timestamp its acquire() recorded (-1: none)
    started_at,     \* per unit, when func began to run (-1: not yet)
    waits,          \* per unit, how many times acquire() went to sleep
    \* ---- a launch-test or terminate-test bulk operation ----------------
    op_kind,        \* "none", "launch_test" or "terminate_test"
    op_ids,         \* server_ids given to the operation
    op_config,      \* launch only: instance_type or subnet_id was given
    op_pc,          \* position of the worker thread
    op_index,       \* the id the client's loop is at
    mgn_results,    \* the client's results dict: successful and failed
    op_error,       \* str(e) of the exception that left the client
    progress,       \* the worker's BulkOperationProgress
    sink_log,       \* every progress given to ProgressDialog.update_progress
    \* ---- what the remote service did (not program state) ---------------
    config_outcome, \* per id, the outcome of update_launch_configuration
    action_outcome, \* per id, the outcome of start_test / stop_test
    \* ---- the ProgressDialog of the operation ---------------------------
    is_cancelled,   \* ProgressDialog.is_cancelled
    \* ---- run_concurrent_sync (shares n_items, task, outcome, invocations,
    \*      completed, progress_calls, results, collected, returned) -------
    max_workers,    \* ThreadPoolExecutor(max_workers=max_concurrent)
    loaded,         \* per worker thread, the value it read for `completed += 1`
    collect_order,  \* history: the units in the order as_completed yielded them
    \* ---- MGNClient record reconciliation and the server list ------------
    server_data,    \* the raw record given to the function under study
    outputs,        \* what the calls of that function returned, in order
    ec2_answers,    \* history: what describe_instances answered, per call
    response,       \* what describe_source_servers answers at present
    servers,        \* MainWindow.servers
    servers_before, \* history: MainWindow.servers when the last refresh began
    last_fetch,     \* history: how the last get_source_servers call ended
    errors_shown,   \* history: the _show_error calls of the last refresh
    \* ---- the server list frame, the bulk actions frame and their dialogs --
    frame_servers,    \* ServerListFrame.servers
    filtered_servers, \* ServerListFrame.filtered_servers, the rows displayed
    selected_servers, \* ServerListFrame.selected_servers, which is the list
                      \* MainWindow.selected_servers refers to
    status_var,       \* the value of the status option menu
    status_options,   \* the values the status option menu offers
    search_var,       \* the text of the search box
    selected_count,   \* BulkActionsFrame.selected_count
    buttons_state,    \* the state of the four buttons of the bulk actions frame
    dialog,           \* the confirmation dialog that is open, if any
    confirm_entry,    \* the text of BulkTestTerminateDialog.confirm_entry
    terminate_button, \* the state of BulkTestTerminateDialog.terminate_button
    last_callback,    \* history: the last on_launch_test / on_terminate_test call
    status_bar        \* the text of MainWindow.status_bar

execVars == <<n_items, max_concurrent, rate_limit, calls, clock, sem_value, task,
              wake_at, outcome, invocations, completed, progress_calls,
              done_queue, results, collected, returned,
              admissions, admitted_at, started_at, waits>>

bulkVars == <<op_kind, op_ids, op_config, op_pc, op_index, mgn_results, op_error,
              progress, sink_log, config_outcome, action_outcome>>

dialogVars == <<is_cancelled>>

syncVars == <<max_workers, loaded, collect_order>>

reconVars == <<server_data, outputs, ec2_answers, response, servers,
               servers_before, last_fetch, errors_shown>>

uiVars == <<frame_servers, filtered_servers, selected_servers, status_var,
            status_options, search_var, selected_count, buttons_state, dialog,
            confirm_entry, terminate_button, last_callback, status_bar>>

vars == <<execVars, bulkVars, dialogVars, syncVars, reconVars, uiVars>>

\* what the actions of one part of the program leave alone
nonExecVars == <<bulkVars, dialogVars, syncVars, reconVars, uiVars>>
nonBulkVars == <<execVars, dialogVars, syncVars, reconVars, uiVars>>
nonReconVars == <<execVars, bulkVars, dialogVars, syncVars, uiVars>>
nonUiVars == <<execVars, bulkVars, dialogVars, syncVars, reconVars>>

Units == 1..n_items

(***************************************************************************)
(* Values stored in the results list.  NoneValue is Python's None: both    *)
(* the placeholder of `[None] * len(items)` and a None returned by func.   *)
(***************************************************************************)
NoneValue == [kind |-> "none", unit |-> 0]
ValueOf(u) == [kind |-> "value", unit |-> u]
ExceptionOf(u) == [kind |-> "exception", unit |-> u]
Pending == [kind |-> "pending", unit |-> 0]

\* what func may do for unit u: return a value, return None, or raise
FuncOutcomes(u) == {ValueOf(u), NoneValue, ExceptionOf(u)}

Min(S) == CHOOSE x \in S : \A y \in S : x <= y

(***************************************************************************)
(* RateLimiter.acquire (async_utils.py 24-40).  The event loop runs one    *)
(* task at a time and acquire() has a single suspension point, the         *)
(* asyncio.sleep, so the code from `now = time.time()` to either the       *)
(* sleep or the append is one step.                                        *)
(***************************************************************************)
\* line 29: the calls still inside the window
ActiveCalls(now) == SelectSeq(calls, LAMBDA t : now - t < rate_limit.time_window)

WindowFull_OffByOne(kept) == Len(kept) > rate_limit.max_calls

\* line 32: the window is full
WindowFull(kept) == Len(kept) >= rate_limit.max_calls

\* line 33
SleepTime(kept, now) == rate_limit.time_window - (now - kept[1])

\* line 40 reads time.time() again: it may have moved on since line 26
AppendDelays == {0, 1}

\* line 78: the unit is handed to the loop's thread pool
Submitted(u) == [task EXCEPT ![u] = "in_executor"]

RateLimiterAcquire(u) ==
    LET now == clock
        kept == ActiveCalls(now)
    IN  IF WindowFull(kept) /\ SleepTime(kept, now) > 0
        THEN /\ calls' = kept
             /\ task' = [task EXCEPT ![u] = "sleeping"]
             /\ wake_at' = [wake_at EXCEPT ![u] = now + SleepTime(kept, now)]
             /\ waits' = [waits EXCEPT ![u] = @ + 1]
             /\ UNCHANGED <<clock, admissions, admitted_at>>
        ELSE \E d \in AppendDelays :
             /\ clock + d <= MaxClock
             /\ clock' = clock + d
             /\ calls' = Append(kept, clock')
             /\ admissions' = Append(admissions, clock')
             /\ admitted_at' = [admitted_at EXCEPT ![u] = clock']
             /\ task' = Submitted(u)
             /\ UNCHANGED <<wake_at, waits>>

(***************************************************************************)
(* run_concurrent_with_rate_limit (async_utils.py 47-115)                  *)
(***************************************************************************)
SemaphoreAvailable_Unbounded == TRUE

\* line 93: `async with semaphore` passes only when a slot is free
SemaphoreAvailable == sem_value > 0

UsesRateLimiter_Never == FALSE

\* line 74: `if rate_limit:`
UsesRateLimiter == rate_limit.present

\* lines 91-94 and 74-78: a task takes a slot, then asks the rate limiter
ProcessWithSemaphore(u) ==
    /\ ~returned
    /\ task[u] = "created"
    /\ SemaphoreAvailable
    /\ sem_value' = sem_value - 1
    /\ IF UsesRateLimiter
       THEN RateLimiterAcquire(u)
       ELSE /\ task' = Submitted(u)
            /\ UNCHANGED <<calls, clock, wake_at, waits, admissions, admitted_at>>
    /\ UNCHANGED <<n_items, max_concurrent, rate_limit, outcome, invocations,
                   completed, progress_calls, done_queue, results, collected,
                   returned, started_at>>
    /\ UNCHANGED nonExecVars

\* lines 36-37: the sleep is over and acquire() is evaluated again
WakeUp(u) ==
    /\ task[u] = "sleeping"
    /\ clock >= wake_at[u]
    /\ RateLimiterAcquire(u)
    /\ UNCHANGED <<n_items, max_concurrent, rate_limit, sem_value, outcome,
                   invocations, completed, progress_calls, done_queue, results,
                   collected, returned, started_at>>
    /\ UNCHANGED nonExecVars

\* line 78: a pool thread begins func(item)
StartFunc(u) ==
    /\ task[u] = "in_executor"
    /\ task' = [task EXCEPT ![u] = "running"]
    /\ invocations' = [invocations EXCEPT ![u] = @ + 1]
    /\ started_at' = [started_at EXCEPT ![u] = clock]
    /\ UNCHANGED <<n_items, max_concurrent, rate_limit, calls, clock, sem_value,
                   wake_at, outcome, completed, progress_calls, done_queue,
                   results, collected, returned, admissions, admitted_at, waits>>
    /\ UNCHANGED nonExecVars

SemaphoreRelease_Leaked(value) == value

\* line 93: leaving `async with semaphore` gives the slot back
SemaphoreRelease(value) == value + 1

CompletedAfter_OnlyOnSuccess(c, o) == IF o.kind = "exception" THEN c ELSE c + 1

\* line 84, in the finally block: runs whatever func did
CompletedAfter(c, o) == c + 1

\* lines 78-86 and 93-94: func returns or raises, the finally block counts
\* the unit and reports progress, the slot is released and the task is done
FinishFunc(u) ==
    /\ task[u] = "running"
    /\ \E o \in FuncOutcomes(u) :
         /\ outcome' = [outcome EXCEPT ![u] = o]
         /\ completed' = CompletedAfter(completed, o)
    /\ progress_calls' = Append(progress_calls, <<completed', n_items>>)
    /\ sem_value' = SemaphoreRelease(sem_value)
    /\ task' = [task EXCEPT ![u] = "done"]
    /\ done_queue' = Append(done_queue, u)
    /\ UNCHANGED <<n_items, max_concurrent, rate_limit, calls, clock, wake_at,
                   invocations, results, collected, returned, admissions,
                   admitted_at, started_at, waits>>
    /\ UNCHANGED nonExecVars

\* lines 110-113: the exception goes to the first slot that still holds None
MarkFailed(res, e) ==
    LET free == {i \in 1..Len(res) : res[i] = NoneValue}
    IN  IF free = {} THEN res ELSE [res EXCEPT ![Min(free)] = e]

\* lines 103-113: one turn of the as_completed loop
Collect ==
    /\ done_queue # <<>>
    /\ LET u == Head(done_queue)
       IN  results' = IF outcome[u].kind = "exception"
                      THEN MarkFailed(results, outcome[u])
                      ELSE [results EXCEPT ![u] = outcome[u]]
    /\ done_queue' = Tail(done_queue)
    /\ collected' = collected + 1
    /\ UNCHANGED <<n_items, max_concurrent, rate_limit, calls, clock, sem_value,
                   task, wake_at, outcome, invocations, completed,
                   progress_calls, returned, admissions, admitted_at,
                   started_at, waits>>
    /\ UNCHANGED nonExecVars

\* line 115
Return ==
    /\ ~returned
    /\ collected = n_items
    /\ returned' = TRUE
    /\ UNCHANGED <<n_items, max_concurrent, rate_limit, calls, clock, sem_value,
                   task, wake_at, outcome, invocations, completed,
                   progress_calls, done_queue, results, collected, admissions,
                   admitted_at, started_at, waits>>
    /\ UNCHANGED nonExecVars

\* time passes while the call is running
Tick ==
    /\ ~returned
    /\ clock < MaxClock
    /\ clock' = clock + 1
    /\ UNCHANGED <<n_items, max_concurrent, rate_limit, calls, sem_value, task,
                   wake_at, outcome, invocations, completed, progress_calls,
                   done_queue, results, collected, returned, admissions,
                   admitted_at, started_at, waits>>
    /\ UNCHANGED nonExecVars

\* RateLimiter.__init__ (19-22): the limiters the runs are given
RateLimiters(windows) == [present : {TRUE}, max_calls : MaxCallsChoices,
                          time_window : windows]

\* rate_limit=None, the default of line 51
NoRateLimiter == [present |-> FALSE, max_calls |-> 1, time_window |-> 1]

\* lines 67-68 and 89: the state when the tasks have been created
InitRun(limiters, sizes) ==
    /\ n_items \in sizes
    /\ max_concurrent \in ConcurrencyChoices
    /\ rate_limit \in limiters
    /\ calls = <<>>
    /\ clock = 0
    /\ sem_value = max_concurrent
    /\ task = [u \in Units |-> "created"]
    /\ wake_at = [u \in Units |-> 0]
    /\ outcome = [u \in Units |-> Pending]
    /\ invocations = [u \in Units |-> 0]
    /\ completed = 0
    /\ progress_calls = <<>>
    /\ done_queue = <<>>
    /\ results = [u \in Units |-> NoneValue]
    /\ collected = 0
    /\ returned = FALSE
    /\ admissions = <<>>
    /\ admitted_at = [u \in Units |-> -1]
    /\ started_at = [u \in Units |-> -1]
    /\ waits = [u \in Units |-> 0]

(***************************************************************************)
(* BulkOperationProgress (models/server.py 76-96)                          *)
(***************************************************************************)
\* Python's None in a text field
NoText == "None"

\* lines 79-84: a new progress, counters zero and no results
NewProgress(total) ==
    [total_servers |-> total, completed |-> 0, successful |-> 0, failed |-> 0,
     in_progress |-> 0, results |-> <<>>]

\* lines 86-91; the float quotient is kept to whole percents
progress_percentage(p) ==
    IF p.total_servers = 0 THEN 0 ELSE (p.completed * 100) \div p.total_servers

\* lines 93-96
is_complete(p) == p.completed >= p.total_servers

(***************************************************************************)
(* The remote service.  A call returns a job id, fails with a ClientError  *)
(* that carries a message, or fails with another exception (a connection   *)
(* error, a ClientError without a message, ...).                           *)
(***************************************************************************)
JobIds == {"job-1", "job-2"}
ErrorMessages == {"throttled", "denied"}
OtherErrors == {"timeout"}

NotCalled == [kind |-> "not_called", text |-> NoText]
RemoteOutcomes ==
    [kind : {"ok"}, text : JobIds]
    \cup [kind : {"client_error"}, text : ErrorMessages]
    \cup [kind : {"other_error"}, text : OtherErrors]

ServerIds == 1..MaxServers

\* the id lists an operation may be given: no id twice, any order
IdLists ==
    UNION {{q \in [1..n -> ServerIds] : \A i, j \in 1..n : i # j => q[i] # q[j]} :
           n \in 0..MaxServers}

(***************************************************************************)
(* MGNClient.launch_test_instances (mgn_client.py 325-379) and             *)
(* MGNClient.terminate_test_instances (381-421)                            *)
(***************************************************************************)
\* lines 332-336 / 386-390
EmptyResults == [successful |-> <<>>, failed |-> <<>>]

\* lines 358-363 / 399-404 with the new entry put at the head of the list
RecordSuccess_Prepended(res, id, job) ==
    [res EXCEPT !.successful = <<[server_id |-> id, job_id |-> job]>> \o @]

\* lines 358-363 / 399-404
RecordSuccess(res, id, job) ==
    [res EXCEPT !.successful = Append(@, [server_id |-> id, job_id |-> job])]

RecordFailure_Dropped(res, id, msg) == res

\* lines 366-371 / 408-413
RecordFailure(res, id, msg) ==
    [res EXCEPT !.failed = Append(@, [server_id |-> id, error |-> msg])]

\* one turn of the client's loop whose last remote call ended with `last`:
\* a job id is recorded, a ClientError is recorded as this id's failure, any
\* other exception leaves the loop and the client (lines 377-379 / 419-421)
LoopTurn(id, last) ==
    /\ op_index' = op_index + 1
    /\ IF last.kind = "ok"
       THEN /\ mgn_results' = RecordSuccess(mgn_results, id, last.text)
            /\ UNCHANGED <<op_pc, op_error>>
       ELSE IF last.kind = "client_error"
       THEN /\ mgn_results' = RecordFailure(mgn_results, id, last.text)
            /\ UNCHANGED <<op_pc, op_error>>
       ELSE /\ op_pc' = "raised"
            /\ op_error' = last.text
            /\ UNCHANGED mgn_results

\* lines 338-372: update_launch_configuration when a configuration was given,
\* then start_test, for the next id
LaunchLoopStep ==
    /\ op_kind = "launch_test"
    /\ op_pc = "calling"
    /\ op_index <= Len(op_ids)
    /\ LET id == op_ids[op_index]
       IN  \E cfg \in (IF op_config THEN RemoteOutcomes ELSE {NotCalled}) :
           \E act \in (IF cfg.kind \in {"ok", "not_called"}
                       THEN RemoteOutcomes ELSE {NotCalled}) :
              /\ config_outcome' = [config_outcome EXCEPT ![id] = cfg]
              /\ action_outcome' = [action_outcome EXCEPT ![id] = act]
              /\ LoopTurn(id, IF act = NotCalled THEN cfg ELSE act)
    /\ UNCHANGED <<op_kind, op_ids, op_config, progress, sink_log>>
    /\ UNCHANGED nonBulkVars

\* lines 392-414: stop_test for the next id
TerminateLoopStep ==
    /\ op_kind = "terminate_test"
    /\ op_pc = "calling"
    /\ op_index <= Len(op_ids)
    /\ LET id == op_ids[op_index]
       IN  \E act \in RemoteOutcomes :
              /\ action_outcome' = [action_outcome EXCEPT ![id] = act]
              /\ LoopTurn(id, act)
    /\ UNCHANGED <<op_kind, op_ids, op_config, progress, sink_log, config_outcome>>
    /\ UNCHANGED nonBulkVars

(***************************************************************************)
(* MainWindow._launch_test_instances_async (main_window.py 309-389) and    *)
(* MainWindow._terminate_test_instances_async (391-474): the worker thread. *)
(* Both are the same code but for the client method called and the         *)
(* operation_type of the results.                                          *)
(***************************************************************************)
\* lines 327-333 / 405-411
SuccessResult(kind, item) ==
    [server_id |-> item.server_id, success |-> TRUE, operation_type |-> kind,
     error_message |-> NoText, instance_id |-> item.job_id]

FailedResult_UnknownError(kind, item) ==
    [server_id |-> item.server_id, success |-> FALSE, operation_type |-> kind,
     error_message |-> "Unknown error", instance_id |-> NoText]

\* lines 342-348 / 420-426
FailedResult(kind, item) ==
    [server_id |-> item.server_id, success |-> FALSE, operation_type |-> kind,
     error_message |-> item.error, instance_id |-> NoText]

\* lines 334-336 / 412-414
AddSuccess(p, r) ==
    [p EXCEPT !.results = Append(@, r), !.successful = @ + 1, !.completed = @ + 1]

AddFailure_NotCompleted(p, r) ==
    [p EXCEPT !.results = Append(@, r), !.failed = @ + 1]

\* lines 349-351 / 427-429 and 379-381 / 462-464
AddFailure(p, r) ==
    [p EXCEPT !.results = Append(@, r), !.failed = @ + 1, !.completed = @ + 1]

\* lines 323-336 / 401-414: the loop over results['successful']
RECURSIVE FoldSuccessful(_, _, _)
FoldSuccessful(p, kind, items) ==
    IF items = <<>> THEN p
    ELSE FoldSuccessful(AddSuccess(p, SuccessResult(kind, Head(items))), kind,
                        Tail(items))

\* lines 338-351 / 416-429: the loop over results['failed']
RECURSIVE FoldFailed(_, _, _)
FoldFailed(p, kind, items) ==
    IF items = <<>> THEN p
    ELSE FoldFailed(AddFailure(p, FailedResult(kind, Head(items))), kind,
                    Tail(items))

\* lines 370-381 / 453-464: every id becomes a failure carrying str(e)
RECURSIVE FoldAllFailed(_, _, _, _)
FoldAllFailed(p, kind, ids, msg) ==
    IF ids = <<>> THEN p
    ELSE FoldAllFailed(
             AddFailure(p, FailedResult(kind, [server_id |-> Head(ids), error |-> msg])),
             kind, Tail(ids), msg)

\* ProgressDialog.update_progress (progress.py 134-136): the dialog takes the
\* progress it is given; what it draws from it is not modelled
update_progress(log, p) == Append(log, p)

\* lines 309-321 / 391-398 and 330-336 of the client: the thread is started,
\* creates its progress and enters the client
start_operation(kind, ids, cfg) ==
    /\ op_pc = "idle"
    /\ op_kind' = kind
    /\ op_ids' = ids
    /\ op_config' = cfg
    /\ op_pc' = "calling"
    /\ op_index' = 1
    /\ mgn_results' = EmptyResults
    /\ progress' = NewProgress(Len(ids))
    /\ UNCHANGED <<op_error, sink_log, config_outcome, action_outcome>>

StartOperation(kind, ids, cfg) ==
    /\ start_operation(kind, ids, cfg)
    /\ UNCHANGED nonBulkVars

StartLaunch == \E ids \in IdLists, cfg \in BOOLEAN : StartOperation("launch_test", ids, cfg)

StartTerminate == \E ids \in IdLists : StartOperation("terminate_test", ids, FALSE)

\* lines 323-364 / 401-446: the client returned; its lists are folded into
\* the progress, successes first, and the progress goes to the dialog
FoldResults ==
    /\ op_pc = "calling"
    /\ op_index > Len(op_ids)
    /\ progress' = FoldFailed(FoldSuccessful(progress, op_kind, mgn_results.successful),
                              op_kind, mgn_results.failed)
    /\ sink_log' = update_progress(sink_log, progress')
    /\ op_pc' = "done"
    /\ UNCHANGED <<op_kind, op_ids, op_config, op_index, mgn_results, op_error,
                   config_outcome, action_outcome>>
    /\ UNCHANGED nonBulkVars

\* lines 366-385 / 448-469: the client raised; a new progress marks every id
\* failed and goes to the dialog
ExceptPath ==
    /\ op_pc = "raised"
    /\ progress' = FoldAllFailed(NewProgress(Len(op_ids)), op_kind, op_ids, op_error)
    /\ sink_log' = update_progress(sink_log, progress')
    /\ op_pc' = "done"
    /\ UNCHANGED <<op_kind, op_ids, op_config, op_index, mgn_results, op_error,
                   config_outcome, action_outcome>>
    /\ UNCHANGED nonBulkVars

\* ProgressDialog._cancel_operation (progress.py 202-206): the Cancel button,
\* which is enabled until it is pressed or update_progress finds the
\* operation complete (lines 159-160 and 180)
CancelOperation ==
    /\ op_pc \in {"calling", "raised"}
    /\ ~is_cancelled
    /\ is_cancelled' = TRUE
    /\ UNCHANGED <<execVars, bulkVars, syncVars, reconVars, uiVars>>

\* ProgressDialog.__init__ (progress.py 24)
DialogIdle == is_cancelled = FALSE

(***************************************************************************)
(* run_concurrent_sync (async_utils.py 118-172).  Every item is submitted  *)
(* to a ThreadPoolExecutor at lines 156-159; a worker thread takes the     *)
(* oldest queued item.  task[u] is the position of process_item for u:     *)
(* "created" queued, "running" in func, "finally" before `completed += 1`, *)
(* "loaded" between the read and the write of that statement, "stored"     *)
(* before the progress callback, "done" future finished, "collected".      *)
(***************************************************************************)
SyncStages == {"running", "finally", "loaded", "stored"}

\* the worker threads that are inside process_item
BusyWorkers == {u \in Units : task[u] \in SyncStages}

\* line 144: a free worker takes the oldest queued item and calls func
SyncStart(u) ==
    /\ task[u] = "created"
    /\ \A v \in Units : v < u => task[v] # "created"
    /\ Cardinality(BusyWorkers) < max_workers
    /\ task' = [task EXCEPT ![u] = "running"]
    /\ invocations' = [invocations EXCEPT ![u] = @ + 1]
    /\ UNCHANGED <<n_items, max_concurrent, rate_limit, calls, clock, sem_value,
                   wake_at, outcome, completed, progress_calls, done_queue,
                   results, collected, returned, admissions, admitted_at,
                   started_at, waits>>
    /\ UNCHANGED <<bulkVars, dialogVars, syncVars, reconVars, uiVars>>

\* lines 144-149: func returns or raises; the finally clause is entered
SyncFuncEnds(u) ==
    /\ task[u] = "running"
    /\ \E o \in FuncOutcomes(u) : outcome' = [outcome EXCEPT ![u] = o]
    /\ task' = [task EXCEPT ![u] = "finally"]
    /\ UNCHANGED <<n_items, max_concurrent, rate_limit, calls, clock, sem_value,
                   wake_at, invocations, completed, progress_calls, done_queue,
                   results, collected, returned, admissions, admitted_at,
                   started_at, waits>>
    /\ UNCHANGED <<bulkVars, dialogVars, syncVars, reconVars, uiVars>>

\* line 150, first half of `completed += 1`: the thread reads the counter
SyncLoad(u) ==
    /\ task[u] = "finally"
    /\ loaded' = [loaded EXCEPT ![u] = completed]
    /\ task' = [task EXCEPT ![u] = "loaded"]
    /\ UNCHANGED <<n_items, max_concurrent, rate_limit, calls, clock, sem_value,
                   wake_at, outcome, invocations, completed, progress_calls,
                   done_queue, results, collected, returned, admissions,
                   admitted_at, started_at, waits>>
    /\ UNCHANGED <<bulkVars, dialogVars, reconVars, uiVars, max_workers, collect_order>>

\* line 150, second half: the thread writes what it read, plus one
SyncStore(u) ==
    /\ task[u] = "loaded"
    /\ completed' = loaded[u] + 1
    /\ task' = [task EXCEPT ![u] = "stored"]
    /\ UNCHANGED <<n_items, max_concurrent, rate_limit, calls, clock, sem_value,
                   wake_at, outcome, invocations, progress_calls, done_queue,
                   results, collected, returned, admissions, admitted_at,
                   started_at, waits>>
    /\ UNCHANGED <<bulkVars, dialogVars, syncVars, reconVars, uiVars>>

\* lines 151-152: the callback gets the counter as it is now; process_item
\* ends and the future is finished
SyncCallback(u) ==
    /\ task[u] = "stored"
    /\ progress_calls' = Append(progress_calls, <<completed, n_items>>)
    /\ task' = [task EXCEPT ![u] = "done"]
    /\ UNCHANGED <<n_items, max_concurrent, rate_limit, calls, clock, sem_value,
                   wake_at, outcome, invocations, completed, done_queue,
                   results, collected, returned, admissions, admitted_at,
                   started_at, waits>>
    /\ UNCHANGED <<bulkVars, dialogVars, syncVars, reconVars, uiVars>>

StoreResult_InCompletionOrder(res, index, value) ==
    [res EXCEPT ![collected + 1] = value]

\* lines 164-165 `index, result = future.result(); results[index] = result`
\* and 169-170 `index = future_to_index[future]; results[index] = e`
StoreResult(res, index, value) == [res EXCEPT ![index] = value]

\* lines 162-170: as_completed yields a finished future
SyncCollect(u) ==
    /\ task[u] = "done"
    /\ results' = StoreResult(results, u, outcome[u])
    /\ task' = [task EXCEPT ![u] = "collected"]
    /\ collected' = collected + 1
    /\ collect_order' = Append(collect_order, u)
    /\ UNCHANGED <<n_items, max_concurrent, rate_limit, calls, clock, sem_value,
                   wake_at, outcome, invocations, completed, progress_calls,
                   done_queue, returned, admissions, admitted_at, started_at,
                   waits>>
    /\ UNCHANGED <<bulkVars, dialogVars, reconVars, uiVars, max_workers, loaded>>

\* line 172: every future has been yielded
SyncReturn ==
    /\ ~returned
    /\ collected = n_items
    /\ returned' = TRUE
    /\ UNCHANGED <<n_items, max_concurrent, rate_limit, calls, clock, sem_value,
                   task, wake_at, outcome, invocations, completed, progress_calls,
                   done_queue, results, collected, admissions, admitted_at,
                   started_at, waits>>
    /\ UNCHANGED <<bulkVars, dialogVars, syncVars, reconVars, uiVars>>

(***************************************************************************)
(* Raw records of the describe_source_servers listing.  A text is the      *)
(* sequence of its characters, so that slices, prefixes and lengths are    *)
(* computed; a key that may be missing from a dict is [has, v].  Enum      *)
(* names and state strings are plain strings, "" when the key is missing   *)
(* and the code reads it with a '' default.                                *)
(***************************************************************************)
Absent == [has |-> FALSE, v |-> <<>>]
Some(t) == [has |-> TRUE, v |-> t]

\* Python truthiness of dict.get(key): present and not ''
Truthy(o) == o.has /\ o.v # <<>>

\* dict.get(key, default)
Get(o, default) == IF o.has THEN o.v ELSE default

EmptyText == <<>>
WebText == <<"w", "e", "b">>
DbText == <<"d", "b">>
AppText == <<"a", "p", "p">>
HostText == <<"h", "0", "1">>
UnknownText == <<"U", "n", "k", "n", "o", "w", "n">>
ServerPrefix == <<"S", "e", "r", "v", "e", "r", "-">>
ShortId == <<"s", "-", "1">>
EightId == <<"s", "-", "1", "2", "3", "4", "5", "6">>
LongId == <<"s", "-", "1", "2", "3", "4", "5", "6", "7", "8">>
InstanceId == <<"i", "-", "0", "a", "1", "b", "2", "c", "3", "d", "4">>

\* str.lower() on the tag keys of the model
LowerCase ==
    ("Name" :> "name") @@ ("NAME" :> "name") @@ ("name" :> "name")
    @@ ("Env" :> "env") @@ ("" :> "")

\* one entry of a tags dict, or one {key, value} dict of a tags list
Tag(k, val) == [has_key |-> TRUE, key |-> k, has_value |-> TRUE, value |-> val]
TagWithoutValue(k) == [has_key |-> TRUE, key |-> k, has_value |-> FALSE, value |-> <<>>]

\* the 'tags' field: a dict ("map", also the {} default of a missing field)
\* or a list of {key, value} dicts
TagsMap(items) == [shape |-> "map", items |-> items]
TagsList(items) == [shape |-> "list", items |-> items]
NoTags == TagsMap(<<>>)

\* the 'dataReplicationInfo' field
ReplicationInfo(state, lag, snapshot) ==
    [is_dict |-> TRUE, dataReplicationState |-> state, lagDuration |-> lag,
     lastSnapshotDateTime |-> snapshot]
NoReplicationInfo == ReplicationInfo("", "", "")

\* the 'launchedInstance' field: ec2InstanceID and state
LaunchedInstance(id, state) == [ec2InstanceID |-> id, state |-> state]
NoLaunchedInstance == LaunchedInstance(Absent, NoText)

\* a record that has only a sourceServerID
BlankRecord(id) ==
    [sourceServerID |-> id,
     tags |-> NoTags,
     description |-> Absent,
     isArchived |-> "absent",
     hostname |-> Absent,
     lifeCycleState |-> "",
     lastSeenByServiceDateTime |-> "",
     lastLaunchTime |-> "",
     dataReplicationInfo |-> NoReplicationInfo,
     launchedInstance |-> NoLaunchedInstance,
     testInstanceID |-> Absent,
     otherStrings |-> <<>>,
     targetInstanceIDRightSizingMethod |-> NoText,
     recommendedInstanceType |-> NoText]

(***************************************************************************)
(* MGNClient._extract_server_name (mgn_client.py 241-270)                  *)
(***************************************************************************)
\* line 252: the entries of a tags list whose key is "name" in any case
NameTagIndexes(items) ==
    {i \in 1..Len(items) :
        LowerCase[IF items[i].has_key THEN items[i].key ELSE ""] = "name"}

\* lines 247-248
NameFromMap(items) ==
    LET hits == {i \in 1..Len(items) : items[i].key = "Name"}
    IN  IF hits = {} THEN Absent ELSE Some(items[Min(hits)].value)

\* lines 251-253
NameFromList(items) ==
    LET hits == NameTagIndexes(items)
    IN  IF hits = {} THEN Absent
        ELSE LET tag == items[Min(hits)]
             IN  Some(IF tag.has_value THEN tag.value ELSE UnknownText)

\* lines 244-253
NameFromTags(d) ==
    IF d.tags.shape = "map" THEN NameFromMap(d.tags.items)
    ELSE IF d.tags.shape = "list" THEN NameFromList(d.tags.items)
    ELSE Absent

\* line 260: `server_data.get('isArchived') is False`
HostnameAllowed(d) == d.isArchived = "false"

\* lines 269-270
FallbackName(id) ==
    IF Len(id) >= 8 THEN ServerPrefix \o SubSeq(id, 1, 8) ELSE ServerPrefix \o id

extract_server_name(d) ==
    IF NameFromTags(d).has THEN NameFromTags(d).v
    ELSE IF Truthy(d.description) THEN d.description.v
    ELSE IF HostnameAllowed(d) /\ Truthy(d.hostname) THEN d.hostname.v
    ELSE FallbackName(Get(d.sourceServerID, UnknownText))

(***************************************************************************)
(* MGNClient._parse_server_status (272-292) and                            *)
(* MGNClient._parse_replication_status (294-323)                           *)
(***************************************************************************)
\* lines 274-290: every key maps to the member of its own name
StatusMappingKeys ==
    {"READY_FOR_TEST", "READY_FOR_TESTING", "READY_FOR_CUTOVER",
     "CUTOVER_IN_PROGRESS", "CUTOVER_COMPLETE", "CUTOVER_COMPLETED", "STOPPED",
     "STALLED", "ERROR", "DISCONNECTED", "NOT_READY", "TEST_IN_PROGRESS",
     "TEST_COMPLETE", "TEST_COMPLETED", "TEST_FAILED"}

\* the members of ServerStatus (models/server.py 10-28); a member is its
\* own name, the enum being a str enum whose values equal the names
ServerStatusMembers ==
    {"UNKNOWN", "NOT_READY", "READY_FOR_TEST", "READY_FOR_TESTING",
     "READY_FOR_CUTOVER", "CUTOVER_IN_PROGRESS", "CUTOVER_COMPLETE",
     "CUTOVER_COMPLETED", "CUTOVER_FAILED", "TEST_IN_PROGRESS", "TEST_COMPLETE",
     "TEST_COMPLETED", "TEST_FAILED", "STALLED", "DISCONNECTED", "ERROR",
     "STOPPED"}

\* line 292
parse_server_status(aws_status) ==
    IF aws_status \in StatusMappingKeys THEN aws_status ELSE "UNKNOWN"

HasLag_IgnoresSentinel(lag) == lag # ""

\* line 316: `lag_duration and lag_duration != 'P0D'`
HasLag(lag) == lag # "" /\ lag # "P0D"

parse_replication_status(r) ==
    IF ~r.is_dict
       \/ (r.dataReplicationState = "" /\ r.lagDuration = ""
           /\ r.lastSnapshotDateTime = "")
    THEN "UNKNOWN"
    ELSE IF r.dataReplicationState = "STOPPED" THEN "STOPPED"
    ELSE IF r.dataReplicationState = "FAILED" THEN "FAILED"
    ELSE IF r.dataReplicationState = "INITIAL_SYNC" THEN "INITIAL_SYNC"
    ELSE IF r.dataReplicationState = "INITIAL_SYNC_COMPLETE" THEN "REPLICATED"
    ELSE IF r.dataReplicationState = "BACKLOG" THEN "BACKLOG"
    ELSE IF r.dataReplicationState = "CONTINUOUS" THEN "CONTINUOUS"
    ELSE IF HasLag(r.lagDuration) THEN "REPLICATING"
    ELSE IF r.lastSnapshotDateTime # "" THEN "REPLICATED"
    ELSE "UNKNOWN"

(***************************************************************************)
(* MGNClient._parse_source_server (mgn_client.py 96-239)                   *)
(***************************************************************************)
\* what ec2_client.describe_instances may do for one instance id: answer with
\* a state name, answer without one, answer with no reservation, or raise
Ec2Answers ==
    [kind : {"state"}, name : {"running", "pending"}]
    \cup [kind : {"no_state_name", "no_reservations", "raises"}, name : {NoText}]

\* timestamps datetime.fromisoformat accepts, among those of the model
IsoTimes == {"2024-05-01T10:00:00Z", "2024-06-01T12:30:00Z"}

\* lines 126-147: lastLaunchTime, else lifeCycle.lastSeenByServiceDateTime
LastSeen(d) ==
    IF d.lastLaunchTime \in IsoTimes THEN d.lastLaunchTime
    ELSE IF d.lastSeenByServiceDateTime \in IsoTimes
    THEN d.lastSeenByServiceDateTime
    ELSE NoText

\* line 172: `value.startswith('i-') and len(value) > 10`
LooksLikeInstanceId(t) == Len(t) > 10 /\ t[1] = "i" /\ t[2] = "-"

\* line 171: the top-level string values of the record, in dict order
TopLevelStrings(d) ==
    (IF d.sourceServerID.has THEN <<d.sourceServerID.v>> ELSE <<>>)
    \o (IF d.description.has THEN <<d.description.v>> ELSE <<>>)
    \o (IF d.testInstanceID.has THEN <<d.testInstanceID.v>> ELSE <<>>)
    \o d.otherStrings

\* lines 169-176
FirstInstanceLikeValue(d) ==
    LET vals == TopLevelStrings(d)
        hits == {i \in 1..Len(vals) : LooksLikeInstanceId(vals[i])}
    IN  IF hits = {} THEN Absent ELSE Some(vals[Min(hits)])

\* lines 150-176: the test instance id and the state found with it
TestInstance(d) ==
    IF Truthy(d.launchedInstance.ec2InstanceID)
    THEN [id |-> d.launchedInstance.ec2InstanceID, state |-> d.launchedInstance.state]
    ELSE IF Truthy(d.testInstanceID)
    THEN [id |-> d.testInstanceID, state |-> "running"]
    ELSE IF FirstInstanceLikeValue(d).has
    THEN [id |-> FirstInstanceLikeValue(d), state |-> "running"]
    ELSE [id |-> d.testInstanceID, state |-> d.launchedInstance.state]

\* line 179: `if test_instance_id and not test_instance_state`
LookupNeeded(d) ==
    Truthy(TestInstance(d).id) /\ TestInstance(d).state \in {NoText, ""}

\* lines 180-190 with the except clause leaving the state as it was
StateAfterLookup_FailureKeepsState(state, answer) ==
    IF answer.kind = "state" THEN answer.name
    ELSE IF answer.kind = "no_state_name" THEN "unknown"
    ELSE state

\* lines 180-190
StateAfterLookup(state, answer) ==
    IF answer.kind = "state" THEN answer.name
    ELSE IF answer.kind = "no_state_name" THEN "unknown"
    ELSE IF answer.kind = "raises" THEN "unknown"
    ELSE state

TagsOf_SharedAcrossCalls(d) == IF outputs = <<>> THEN {} ELSE {<<"Name", WebText>>}

\* lines 205-214: a tags dict is taken as it is; from a tags list every entry
\* with a key and a value is kept, a later entry replacing an earlier one
TagsOf(d) ==
    LET items == d.tags.items
        kept == {i \in 1..Len(items) : items[i].has_key /\ items[i].has_value}
        last == {i \in kept : \A j \in kept : items[j].key = items[i].key => j <= i}
    IN  IF d.tags.shape \in {"map", "list"}
        THEN {<<items[i].key, items[i].value>> : i \in last}
        ELSE {}

\* aws_config.region
Region == "us-east-1"

HasServerId_EmptyAccepted(d) == d.sourceServerID.has

\* lines 103-105: `if not source_server_id: raise ValueError(...)`
HasServerId(d) == Truthy(d.sourceServerID)

Raised(msg) == [kind |-> "raised", error |-> msg]

\* the SourceServer built at lines 221-234, or the ValueError of line 105;
\* `answer` is what describe_instances does if it is called
parse_source_server(d, answer) ==
    IF ~HasServerId(d) THEN Raised("Missing sourceServerID")
    ELSE [kind |-> "server",
          source_server_id |-> d.sourceServerID.v,
          name |-> extract_server_name(d),
          status |-> parse_server_status(d.lifeCycleState),
          replication_status |-> parse_replication_status(d.dataReplicationInfo),
          region |-> Region,
          last_seen_date_time |-> LastSeen(d),
          target_instance_id |-> d.targetInstanceIDRightSizingMethod,
          target_instance_type |-> d.recommendedInstanceType,
          test_instance_id |-> TestInstance(d).id,
          test_instance_state |->
              IF LookupNeeded(d)
              THEN StateAfterLookup(TestInstance(d).state, answer)
              ELSE TestInstance(d).state,
          tags |-> TagsOf(d),
          description |-> Get(d.description, EmptyText)]

(***************************************************************************)
(* MGNClient.get_source_servers (mgn_client.py 23-94)                      *)
(***************************************************************************)
\* one element of the listing: a dict, a str, or anything else
DictEntry(d) == [shape |-> "dict", record |-> d]
StrEntry == [shape |-> "str", record |-> BlankRecord(Absent)]
OtherEntry == [shape |-> "other", record |-> BlankRecord(Absent)]

\* lines 58-76: entries that are not dicts are passed over, and so is a dict
\* whose parsing raises
RECURSIVE ParseItems(_, _, _)
ParseItems(items, answer, acc) ==
    IF items = <<>> THEN acc
    ELSE LET entry == Head(items)
             parsed == parse_source_server(entry.record, answer)
         IN  IF entry.shape # "dict" \/ parsed.kind = "raised"
             THEN ParseItems(Tail(items), answer, acc)
             ELSE ParseItems(Tail(items), answer, Append(acc, parsed))

ListingFailure_EmptyList(resp) == [kind |-> "list", value |-> <<>>]

\* lines 81-94: a ClientError becomes an Exception whose message depends on
\* the error code, any other exception is raised again
ListingFailure(resp) ==
    IF resp.kind = "other_error" THEN Raised(resp.error)
    ELSE IF resp.error = "UnauthorizedOperation"
    THEN Raised("Insufficient permissions. Ensure your AWS credentials have MGN access.")
    ELSE IF resp.error = "InvalidParameterValue"
    THEN Raised("Invalid request parameters")
    ELSE Raised("AWS MGN error")

\* lines 38-79
get_source_servers(resp, answer) ==
    IF resp.kind \in {"client_error", "other_error"} THEN ListingFailure(resp)
    ELSE IF resp.kind = "dict" \/ resp.kind = "list"
    THEN [kind |-> "list", value |-> ParseItems(resp.items, answer, <<>>)]
    ELSE [kind |-> "list", value |-> <<>>]

(***************************************************************************)
(* The calls under study.  _extract_server_name and                        *)
(* _parse_replication_status are applied once to the record given;         *)
(* _parse_source_server is applied to the same record up to MaxParses      *)
(* times, the instance lookup being answered anew at every call.           *)
(***************************************************************************)
ExtractServerName ==
    /\ outputs = <<>>
    /\ outputs' = <<extract_server_name(server_data)>>
    /\ UNCHANGED <<server_data, ec2_answers, response, servers, servers_before,
                   last_fetch, errors_shown>>
    /\ UNCHANGED nonReconVars

ParseReplicationStatus ==
    /\ outputs = <<>>
    /\ outputs' = <<parse_replication_status(server_data.dataReplicationInfo)>>
    /\ UNCHANGED <<server_data, ec2_answers, response, servers, servers_before,
                   last_fetch, errors_shown>>
    /\ UNCHANGED nonReconVars

\* lines 110-115: the status of the record, from the state of its lifeCycle
\* sub-record ('' when the key is missing)
ParseServerStatus ==
    /\ outputs = <<>>
    /\ outputs' = <<parse_server_status(server_data.lifeCycleState)>>
    /\ UNCHANGED <<server_data, ec2_answers, response, servers, servers_before,
                   last_fetch, errors_shown>>
    /\ UNCHANGED nonReconVars

\* describe_instances was not called
NotAsked == [kind |-> "not_asked", name |-> NoText]

ParseSourceServer ==
    /\ Len(outputs) < MaxParses
    /\ \E answer \in (IF HasServerId(server_data) /\ LookupNeeded(server_data)
                      THEN Ec2Answers ELSE {NotAsked}) :
         /\ outputs' = Append(outputs, parse_source_server(server_data, answer))
         /\ ec2_answers' = Append(ec2_answers, answer)
    /\ UNCHANGED <<server_data, response, servers, servers_before, last_fetch,
                   errors_shown>>
    /\ UNCHANGED nonReconVars

(***************************************************************************)
(* MainWindow._refresh_servers (main_window.py 210-232)                    *)
(***************************************************************************)
\* get_source_servers has not been called by the last refresh
NotFetched ==
    [response |-> [kind |-> "other", items |-> <<>>, error |-> NoText],
     result |-> [kind |-> "not_called"]]

refresh_servers ==
    /\ servers_before' = servers
    /\ \E aws_ok, mgn_ok \in BOOLEAN :
         IF ~aws_ok
         THEN /\ errors_shown' = <<"AWS connection failed. Please check your credentials.">>
              /\ last_fetch' = NotFetched
              /\ UNCHANGED servers
         ELSE IF ~mgn_ok
         THEN /\ errors_shown' = <<"MGN service connection failed. Please check your permissions.">>
              /\ last_fetch' = NotFetched
              /\ UNCHANGED servers
         ELSE LET result == get_source_servers(response, NotAsked)
              IN  /\ last_fetch' = [response |-> response, result |-> result]
                  /\ IF result.kind = "list"
                     THEN /\ servers' = result.value
                          /\ errors_shown' = <<>>
                     ELSE /\ errors_shown' = <<"Error loading servers">>
                          /\ UNCHANGED servers
    /\ UNCHANGED <<server_data, outputs, ec2_answers, response>>

\* the Refresh button and the profile selection call _refresh_servers
RefreshServers ==
    /\ refresh_servers
    /\ UNCHANGED nonReconVars

\* update_ui (main_window.py 355-362 / 435-443), scheduled by the worker with
\* self.after(100, update_ui) once the folded progress went to the dialog:
\* the status bar gets the outcome of the operation, then _refresh_servers
\* runs and writes its own status over it
UpdateUi ==
    /\ op_pc = "done"
    /\ op_error = NoText
    /\ op_pc' = "updated"
    /\ refresh_servers
    /\ UNCHANGED <<op_kind, op_ids, op_config, op_index, mgn_results, op_error,
                   progress, sink_log, config_outcome, action_outcome>>
    /\ UNCHANGED <<execVars, dialogVars, syncVars, uiVars>>

\* the callback scheduled by the except path (lines 385 / 469): _show_error
\* alone
ShowOperationError ==
    /\ op_pc = "done"
    /\ op_error # NoText
    /\ op_pc' = "updated"
    /\ errors_shown' = <<"Failed bulk operation">>
    /\ UNCHANGED <<op_kind, op_ids, op_config, op_index, mgn_results, op_error,
                   progress, sink_log, config_outcome, action_outcome>>
    /\ UNCHANGED <<server_data, outputs, ec2_answers, response, servers,
                   servers_before, last_fetch>>
    /\ UNCHANGED <<execVars, dialogVars, syncVars, uiVars>>

\* the remote listing, which answered so far, starts to fail
FailedResponses ==
    [kind : {"client_error"}, items : {<<>>},
     error : {"UnauthorizedOperation", "InvalidParameterValue", "ThrottlingException"}]
    \cup [kind : {"other_error"}, items : {<<>>}, error : {"timeout"}]

RemoteFails ==
    /\ response.kind \in {"dict", "list", "other"}
    /\ response' \in FailedResponses
    /\ UNCHANGED <<server_data, outputs, ec2_answers, servers, servers_before,
                   last_fetch, errors_shown>>
    /\ UNCHANGED nonReconVars

\* a record from `records` is about to be studied; MainWindow has just been
\* built (line 28) and the listing will answer with one of `responses`
ReconStart(records, responses) ==
    /\ server_data \in records
    /\ outputs = <<>>
    /\ ec2_answers = <<>>
    /\ response \in responses
    /\ servers = <<>>
    /\ servers_before = <<>>
    /\ last_fetch = NotFetched
    /\ errors_shown = <<>>

\* the response of a listing that is never asked
NoResponse == [kind |-> "other", items |-> <<>>, error |-> NoText]

\* no record is under study
ReconIdle == ReconStart({BlankRecord(Absent)}, {NoResponse})

(***************************************************************************)
(* ServerListFrame (ui/server_list.py), BulkActionsFrame and its two       *)
(* confirmation dialogs (ui/bulk_actions.py), and the handlers of          *)
(* MainWindow they call (ui/main_window.py 235-291).                       *)
(***************************************************************************)
\* the servers of the window: a SourceServer is known by its id, its name
\* and its status, the fields the list frame reads
ListedIds == 1..MaxListed
ServerNames == <<WebText, DbText, AppText>>
IdDigits == <<"1", "2", "3">>
IdText(id) == <<"s", "-", IdDigits[id]>>
ListedStatuses == {"READY_FOR_TEST", "TEST_COMPLETE"}
ListedServer(id, st) == [source_server_id |-> id, name |-> ServerNames[id], status |-> st]

\* the lists get_source_servers may return: no id twice, any order
ServerLists ==
    UNION {{q \in [1..n -> {ListedServer(id, st) : id \in ListedIds, st \in ListedStatuses}] :
                \A i, j \in 1..n : i # j => q[i].source_server_id # q[j].source_server_id} :
           n \in 0..MaxListed}

Elements(seq) == {seq[i] : i \in 1..Len(seq)}

\* status_display_map (server_list.py 125-143)
status_display_map ==
    ("READY_FOR_TEST" :> "Ready for Test") @@ ("READY_FOR_TESTING" :> "Ready for Testing")
    @@ ("READY_FOR_CUTOVER" :> "Ready for Cutover") @@ ("TEST_IN_PROGRESS" :> "Test in Progress")
    @@ ("CUTOVER_IN_PROGRESS" :> "Cutover in Progress") @@ ("TEST_COMPLETE" :> "Test Complete")
    @@ ("TEST_COMPLETED" :> "Test Completed") @@ ("CUTOVER_COMPLETE" :> "Cutover Complete")
    @@ ("CUTOVER_COMPLETED" :> "Cutover Completed") @@ ("TEST_FAILED" :> "Test Failed")
    @@ ("CUTOVER_FAILED" :> "Cutover Failed") @@ ("NOT_READY" :> "Not Ready")
    @@ ("DISCONNECTED" :> "Disconnected") @@ ("STALLED" :> "Stalled")
    @@ ("ERROR" :> "Error") @@ ("STOPPED" :> "Stopped") @@ ("UNKNOWN" :> "Unknown")

\* status_map (server_list.py 177-191): the statuses a display name selects
status_map ==
    ("Ready for Test" :> {"READY_FOR_TEST"}) @@ ("Ready for Testing" :> {"READY_FOR_TESTING"})
    @@ ("Ready for Cutover" :> {"READY_FOR_CUTOVER"}) @@ ("Test in Progress" :> {"TEST_IN_PROGRESS"})
    @@ ("Test Completed" :> {"TEST_COMPLETE", "TEST_COMPLETED"}) @@ ("Test Failed" :> {"TEST_FAILED"})
    @@ ("Cutover in Progress" :> {"CUTOVER_IN_PROGRESS"})
    @@ ("Cutover Completed" :> {"CUTOVER_COMPLETE", "CUTOVER_COMPLETED"})
    @@ ("Cutover Failed" :> {"CUTOVER_FAILED"}) @@ ("Stalled" :> {"STALLED"})
    @@ ("Disconnected" :> {"DISCONNECTED"}) @@ ("Not Ready" :> {"NOT_READY"})
    @@ ("Error" :> {"ERROR"})

\* str.lower() on the characters of the model
LowerChar == ("W" :> "w") @@ ("S" :> "s") @@ ("D" :> "d")
LowerText(t) == [i \in 1..Len(t) |-> IF t[i] \in DOMAIN LowerChar THEN LowerChar[t[i]] ELSE t[i]]

\* `term in text`
Contains(term, text) ==
    \E i \in 1..(Len(text) - Len(term) + 1) : SubSeq(text, i, i + Len(term) - 1) = term

\* _matches_filter (server_list.py 172-210)
matches_filter(server, status_value, search_value) ==
    /\ status_value # "All" =>
         /\ status_value \in DOMAIN status_map
         /\ server.status \in status_map[status_value]
    /\ LowerText(search_value) # <<>> =>
         \/ Contains(LowerText(search_value), LowerText(server.name))
         \/ Contains(LowerText(search_value), LowerText(IdText(server.source_server_id)))

\* _apply_filters (server_list.py 161-170): the servers that match, in the
\* order of the list; the rows are rebuilt from them
apply_filters(list, status_value, search_value) ==
    LET matches(server) == matches_filter(server, status_value, search_value)
    IN  SelectSeq(list, matches)

\* _update_status_filter_options (server_list.py 116-159): the menu offers
\* "All" and the display names of the statuses listed, and falls back to
\* "All" when its value is not offered any more; an empty list changes nothing
OptionsFor(list, options) ==
    IF list = <<>> THEN options
    ELSE {"All"} \cup {status_display_map[list[i].status] : i \in 1..Len(list)}

StatusValueFor(list, options, value) ==
    IF list = <<>> \/ value \in OptionsFor(list, options) THEN value ELSE "All"

\* no dialog of the bulk actions frame is open
NoDialog == [kind |-> "none", server_count |-> 0]

\* neither callback of the bulk actions frame has been called
NoCallback ==
    [kind |-> "none", entry |-> "", server_count |-> 0, server_ids |-> <<>>,
     progress_dialog |-> "none"]

\* ServerListFrame.update_servers (server_list.py 110-114), called by
\* _refresh_servers with the list it fetched (main_window.py 229-231)
UpdateServers ==
    /\ dialog = NoDialog
    /\ \E new \in ServerLists :
         /\ frame_servers' = new
         /\ status_options' = OptionsFor(new, status_options)
         /\ status_var' = StatusValueFor(new, status_options, status_var)
         /\ filtered_servers' = apply_filters(new, status_var', search_var)
    /\ status_bar' = "Loaded servers from AWS MGN"
    /\ UNCHANGED <<selected_servers, search_var, selected_count, buttons_state,
                   dialog, confirm_entry, terminate_button, last_callback>>
    /\ UNCHANGED nonUiVars

\* the status option menu: its command is _apply_filters (lines 48-53)
ChooseStatus ==
    /\ dialog = NoDialog
    /\ \E value \in status_options :
         /\ status_var' = value
         /\ filtered_servers' = apply_filters(frame_servers, value, search_var)
    /\ UNCHANGED <<frame_servers, selected_servers, status_options, search_var,
                   selected_count, buttons_state, dialog, confirm_entry,
                   terminate_button, last_callback, status_bar>>
    /\ UNCHANGED nonUiVars

\* what the operator may have in the search box
SearchTerms == {<<>>, <<"W", "e", "b">>, <<"s", "-", "2">>, <<"z">>}

\* _on_search_change (server_list.py 212-214), on a key release in the
\* search box, whose text the key has changed
SearchChange ==
    /\ dialog = NoDialog
    /\ \E term \in SearchTerms :
         /\ search_var' = term
         /\ filtered_servers' = apply_filters(frame_servers, status_var, term)
    /\ UNCHANGED <<frame_servers, selected_servers, status_var, status_options,
                   selected_count, buttons_state, dialog, confirm_entry,
                   terminate_button, last_callback, status_bar>>
    /\ UNCHANGED nonUiVars

\* MainWindow._on_server_selection_change (main_window.py 235-239) and
\* BulkActionsFrame.update_selection_count (bulk_actions.py 92-103)
on_selection_change(selection) ==
    /\ selected_count' = Len(selection)
    /\ buttons_state' = IF Len(selection) > 0 THEN "normal" ELSE "disabled"
    /\ status_bar' = "Selected server(s)"

\* _select_all (server_list.py 254-258)
SelectAll ==
    /\ dialog = NoDialog
    /\ selected_servers' = filtered_servers
    /\ on_selection_change(selected_servers')
    /\ UNCHANGED <<frame_servers, filtered_servers, status_var, status_options,
                   search_var, dialog, confirm_entry, terminate_button,
                   last_callback>>
    /\ UNCHANGED nonUiVars

\* _select_none (server_list.py 260-264)
SelectNone ==
    /\ dialog = NoDialog
    /\ selected_servers' = <<>>
    /\ on_selection_change(selected_servers')
    /\ UNCHANGED <<frame_servers, filtered_servers, status_var, status_options,
                   search_var, dialog, confirm_entry, terminate_button,
                   last_callback>>
    /\ UNCHANGED nonUiVars

\* list.remove: the list without the first element equal to the server
Remove(list, server) ==
    LET first == Min({i \in 1..Len(list) : list[i] = server})
    IN  SubSeq(list, 1, first - 1) \o SubSeq(list, first + 1, Len(list))

\* _on_server_selection (server_list.py 266-274)
on_server_selection(list, server, is_selected) ==
    IF is_selected /\ server \notin Elements(list) THEN Append(list, server)
    ELSE IF ~is_selected /\ server \in Elements(list) THEN Remove(list, server)
    ELSE list

\* a click on the checkbox of a row (server_list.py 333-336): the rows are
\* the filtered servers, and the checkbox of a row shows whether its server
\* is in the selection (lines 237 and 276-280), so the click reports the
\* opposite
ToggleRow ==
    /\ dialog = NoDialog
    /\ \E i \in 1..Len(filtered_servers) :
         selected_servers' =
             on_server_selection(selected_servers, filtered_servers[i],
                                 filtered_servers[i] \notin Elements(selected_servers))
    /\ on_selection_change(selected_servers')
    /\ UNCHANGED <<frame_servers, filtered_servers, status_var, status_options,
                   search_var, dialog, confirm_entry, terminate_button,
                   last_callback>>
    /\ UNCHANGED nonUiVars

\* ProgressDialog.__init__ and _setup_window (progress.py 18-32): line 21
\* binds the attribute `title` of the dialog to the str it was given, which
\* hides the title() method of the window; line 32 then calls self.title
TitleAttribute(title) == [callable |-> FALSE, value |-> title]

ProgressDialog(title, total_servers) ==
    IF ~TitleAttribute(title).callable THEN Raised("TypeError")
    ELSE [kind |-> "created", error |-> NoText]

\* MainWindow._launch_bulk_test (main_window.py 241-266) and
\* _terminate_bulk_test (268-291), the callbacks of the bulk actions frame
bulk_test(kind, title, cfg) ==
    LET ids == [i \in 1..Len(selected_servers) |-> selected_servers[i].source_server_id]
        progress_dialog == ProgressDialog(title, Len(ids))
    IN  /\ last_callback' = [kind |-> kind, entry |-> confirm_entry,
                             server_count |-> dialog.server_count,
                             server_ids |-> ids,
                             progress_dialog |->
                                 IF ids = <<>> THEN "none" ELSE progress_dialog.kind]
        /\ IF ids = <<>>
           THEN /\ status_bar' = "Error: No servers selected"
                /\ UNCHANGED bulkVars
           ELSE IF progress_dialog.kind = "raised"
           THEN /\ status_bar' = "Error: Failed bulk test"
                /\ UNCHANGED bulkVars
           ELSE /\ status_bar' = "Bulk test started"
                /\ start_operation(kind, ids, cfg)

\* BulkActionsFrame._launch_bulk_test (bulk_actions.py 105-123): the Launch
\* Bulk Test button opens the launch dialog
ClickLaunchBulkTest ==
    /\ dialog = NoDialog
    /\ buttons_state = "normal"
    /\ dialog' = IF selected_count = 0 THEN NoDialog
                 ELSE [kind |-> "launch", server_count |-> selected_count]
    /\ UNCHANGED <<frame_servers, filtered_servers, selected_servers, status_var,
                   status_options, search_var, selected_count, buttons_state,
                   confirm_entry, terminate_button, last_callback, status_bar>>
    /\ UNCHANGED nonUiVars

\* BulkActionsFrame._terminate_bulk_test (bulk_actions.py 125-136): the
\* Terminate Test button opens the confirmation dialog, whose entry is empty
\* and whose terminate button is disabled (lines 284 and 294)
ClickTerminateTest ==
    /\ dialog = NoDialog
    /\ buttons_state = "normal"
    /\ IF selected_count = 0
       THEN UNCHANGED <<dialog, confirm_entry, terminate_button>>
       ELSE /\ dialog' = [kind |-> "terminate", server_count |-> selected_count]
            /\ confirm_entry' = ""
            /\ terminate_button' = "disabled"
    /\ UNCHANGED <<frame_servers, filtered_servers, selected_servers, status_var,
                   status_options, search_var, selected_count, buttons_state,
                   last_callback, status_bar>>
    /\ UNCHANGED nonUiVars

\* what the operator may have in the confirmation entry
EntryTexts == {"", "TERMINAT", "TERMINATE", "TERMINATE ", "terminate"}

\* a key press, a paste or a cut changes the text of the entry
EditConfirmEntry ==
    /\ dialog.kind = "terminate"
    /\ \E text \in EntryTexts \ {confirm_entry} : confirm_entry' = text
    /\ UNCHANGED <<frame_servers, filtered_servers, selected_servers, status_var,
                   status_options, search_var, selected_count, buttons_state,
                   dialog, terminate_button, last_callback, status_bar>>
    /\ UNCHANGED nonUiVars

\* _on_confirm_change (bulk_actions.py 297-301), bound to <KeyRelease>
KeyRelease ==
    /\ dialog.kind = "terminate"
    /\ terminate_button' = IF confirm_entry = "TERMINATE" THEN "normal" ELSE "disabled"
    /\ UNCHANGED <<frame_servers, filtered_servers, selected_servers, status_var,
                   status_options, search_var, selected_count, buttons_state,
                   dialog, confirm_entry, last_callback, status_bar>>
    /\ UNCHANGED nonUiVars

\* line 304 without its test
ConfirmationTyped_Unchecked(entry) == TRUE

\* line 304: `if self.confirm_entry.get() == "TERMINATE"`
ConfirmationTyped(entry) == entry = "TERMINATE"

\* BulkTestTerminateDialog._terminate (bulk_actions.py 303-306), the command
\* of the terminate button
ClickTerminate ==
    /\ dialog.kind = "terminate"
    /\ terminate_button = "normal"
    /\ IF ConfirmationTyped(confirm_entry)
       THEN /\ bulk_test("terminate_test", "Terminating Test Instances", FALSE)
            /\ dialog' = NoDialog
       ELSE UNCHANGED <<bulkVars, dialog, last_callback, status_bar>>
    /\ UNCHANGED <<frame_servers, filtered_servers, selected_servers, status_var,
                   status_options, search_var, selected_count, buttons_state,
                   confirm_entry, terminate_button>>
    /\ UNCHANGED <<execVars, dialogVars, syncVars, reconVars>>

\* BulkTestLaunchDialog._launch (bulk_actions.py 242-244) and
\* on_launch_confirmed (111-115); get_launch_configuration (233-240) returns
\* a dict that always has 'subnet_id', so the configuration is truthy
ClickLaunch ==
    /\ dialog.kind = "launch"
    /\ bulk_test("launch_test", "Launching Test Instances", TRUE)
    /\ dialog' = NoDialog
    /\ UNCHANGED <<frame_servers, filtered_servers, selected_servers, status_var,
                   status_options, search_var, selected_count, buttons_state,
                   confirm_entry, terminate_button>>
    /\ UNCHANGED <<execVars, dialogVars, syncVars, reconVars>>

\* the Cancel button of either dialog: destroy (bulk_actions.py 200 and 291)
ClickCancel ==
    /\ dialog # NoDialog
    /\ dialog' = NoDialog
    /\ UNCHANGED <<frame_servers, filtered_servers, selected_servers, status_var,
                   status_options, search_var, selected_count, buttons_state,
                   confirm_entry, terminate_button, last_callback, status_bar>>
    /\ UNCHANGED nonUiVars

\* the window as it is built (server_list.py 21-24 and 47-60,
\* bulk_actions.py 24-25), showing the servers of `lists`
UiStart(lists) ==
    /\ frame_servers \in lists
    /\ filtered_servers = frame_servers
    /\ selected_servers = <<>>
    /\ status_var = "All"
    /\ status_options = OptionsFor(frame_servers, {"All"})
    /\ search_var = <<>>
    /\ selected_count = 0
    /\ buttons_state = "normal"
    /\ dialog = NoDialog
    /\ confirm_entry = ""
    /\ terminate_button = "disabled"
    /\ last_callback = NoCallback
    /\ status_bar = "Ready"

\* the window has no part in the run
UiIdle == UiStart({<<>>})

\* no run_concurrent_sync call is under way
SyncIdle ==
    /\ max_workers = 1
    /\ loaded = [u \in Units |-> 0]
    /\ collect_order = <<>>

\* no run_concurrent_with_rate_limit call is under way
ExecIdle == InitRun({NoRateLimiter}, {0}) /\ max_concurrent = 1

\* no bulk operation has been started
BulkIdle ==
    /\ op_kind = "none"
    /\ op_ids = <<>>
    /\ op_config = FALSE
    /\ op_pc = "idle"
    /\ op_index = 1
    /\ mgn_results = EmptyResults
    /\ op_error = NoText
    /\ progress = NewProgress(0)
    /\ sink_log = <<>>
    /\ config_outcome = [id \in ServerIds |-> NotCalled]
    /\ action_outcome = [id \in ServerIds |-> NotCalled]

(***************************************************************************)
(* SpecExec: run_concurrent_with_rate_limit called without a rate limiter. *)
(***************************************************************************)
InitExec ==
    /\ InitRun({NoRateLimiter}, 0..MaxItems)
    /\ BulkIdle /\ DialogIdle /\ SyncIdle /\ ReconIdle /\ UiIdle

NextExec ==
    \/ \E u \in Units : ProcessWithSemaphore(u)
    \/ \E u \in Units : StartFunc(u)
    \/ \E u \in Units : FinishFunc(u)
    \/ Collect
    \/ Return

SpecExec == InitExec /\ [][NextExec]_vars

(***************************************************************************)
(* SpecExecLimited: the same call with a RateLimiter, as                   *)
(* BulkOperationManager.execute_bulk_operation makes it (lines 202-208).   *)
(***************************************************************************)
InitExecLimited ==
    /\ InitRun(RateLimiters(TimeWindowChoices), 0..MaxLimitedItems)
    /\ BulkIdle /\ DialogIdle /\ SyncIdle /\ ReconIdle /\ UiIdle

NextExecLimited ==
    \/ \E u \in Units : ProcessWithSemaphore(u)
    \/ \E u \in Units : WakeUp(u)
    \/ \E u \in Units : StartFunc(u)
    \/ \E u \in Units : FinishFunc(u)
    \/ Collect
    \/ Return
    \/ Tick

SpecExecLimited == InitExecLimited /\ [][NextExecLimited]_vars

(***************************************************************************)
(* SpecExecLive: SpecExecLimited with time that never stops and with the   *)
(* scheduling the code relies on.  The program reads the clock only in     *)
(* differences (now - t at line 29, the sleep time at line 33), so when    *)
(* the clock has reached MaxClock a tick moves every timestamp the program *)
(* holds back by one instead; a timestamp that has left the largest window *)
(* stays at the edge of it.  The history variables are not moved: no       *)
(* action reads them.                                                      *)
(***************************************************************************)
Max(S) == CHOOSE x \in S : \A y \in S : x >= y

\* the oldest timestamp that can matter at MaxClock
WindowEdge == MaxClock - Max(TimeWindowChoices)

Rebased(t) == Max({t - 1, WindowEdge})

TickLive ==
    /\ ~returned
    /\ IF clock < MaxClock
       THEN /\ clock' = clock + 1
            /\ UNCHANGED <<calls, wake_at>>
       ELSE /\ calls' = [i \in 1..Len(calls) |-> Rebased(calls[i])]
            /\ wake_at' = [u \in Units |-> Max({wake_at[u] - 1, 0})]
            /\ UNCHANGED clock
    /\ UNCHANGED <<n_items, max_concurrent, rate_limit, sem_value, task,
                   outcome, invocations, completed, progress_calls,
                   done_queue, results, collected, returned, admissions,
                   admitted_at, started_at, waits>>
    /\ UNCHANGED nonExecVars

NextExecLive ==
    \/ \E u \in Units : ProcessWithSemaphore(u)
    \/ \E u \in Units : WakeUp(u)
    \/ \E u \in Units : StartFunc(u)
    \/ \E u \in Units : FinishFunc(u)
    \/ Collect
    \/ Return
    \/ TickLive

\* The event loop runs every task that is ready (ProcessWithSemaphore,
\* WakeUp, Collect, Return), the thread pool starts what it was handed
\* (StartFunc), every mapping invocation terminates (FinishFunc) and time
\* keeps advancing (TickLive).
FairnessExecLive ==
    /\ \A u \in 1..MaxLimitedItems :
         /\ WF_vars(u \in Units /\ ProcessWithSemaphore(u))
         /\ WF_vars(u \in Units /\ WakeUp(u))
         /\ WF_vars(u \in Units /\ StartFunc(u))
         /\ WF_vars(u \in Units /\ FinishFunc(u))
    /\ WF_vars(Collect)
    /\ WF_vars(Return)
    /\ WF_vars(TickLive)

SpecExecLive == InitExecLimited /\ [][NextExecLive]_vars /\ FairnessExecLive

(***************************************************************************)
(* SpecLimiter: coroutines of one event loop calling acquire() on one      *)
(* RateLimiter at any time (as process_item does at line 75).  Caller u is *)
(* "created" before its call and "in_executor" once acquire() returned.    *)
(***************************************************************************)
CallAcquire(u) ==
    /\ task[u] = "created"
    /\ RateLimiterAcquire(u)
    /\ UNCHANGED <<n_items, max_concurrent, rate_limit, sem_value, outcome,
                   invocations, completed, progress_calls, done_queue, results,
                   collected, returned, started_at>>
    /\ UNCHANGED nonExecVars

InitLimiter ==
    /\ InitRun(RateLimiters(LimiterWindowChoices), 1..MaxCallers)
    /\ BulkIdle /\ DialogIdle /\ SyncIdle /\ ReconIdle /\ UiIdle

NextLimiter ==
    \/ \E u \in Units : CallAcquire(u)
    \/ \E u \in Units : WakeUp(u)
    \/ Tick

SpecLimiter == InitLimiter /\ [][NextLimiter]_vars
(***************************************************************************)
(* SpecBulk: one launch-test or terminate-test operation.                  *)
(***************************************************************************)
InitBulk == ExecIdle /\ BulkIdle /\ DialogIdle /\ SyncIdle /\ ReconIdle /\ UiIdle

NextBulk ==
    \/ StartLaunch
    \/ StartTerminate
    \/ LaunchLoopStep
    \/ TerminateLoopStep
    \/ FoldResults
    \/ ExceptPath
    \/ CancelOperation
    \/ UpdateUi
    \/ ShowOperationError

SpecBulk == InitBulk /\ [][NextBulk]_vars

(***************************************************************************)
(* SpecSync: one run_concurrent_sync call.                                 *)
(***************************************************************************)
InitSync ==
    /\ InitRun({NoRateLimiter}, 0..MaxSyncItems)
    /\ max_concurrent = 1
    /\ max_workers \in ConcurrencyChoices
    /\ loaded = [u \in Units |-> 0]
    /\ collect_order = <<>>
    /\ BulkIdle /\ DialogIdle /\ ReconIdle /\ UiIdle

NextSync ==
    \/ \E u \in Units : SyncStart(u)
    \/ \E u \in Units : SyncFuncEnds(u)
    \/ \E u \in Units : SyncLoad(u)
    \/ \E u \in Units : SyncStore(u)
    \/ \E u \in Units : SyncCallback(u)
    \/ \E u \in Units : SyncCollect(u)
    \/ SyncReturn

SpecSync == InitSync /\ [][NextSync]_vars

(***************************************************************************)
(* SpecName: _extract_server_name applied to one raw record.               *)
(***************************************************************************)
TagShapes ==
    {NoTags,
     TagsMap(<<Tag("Name", WebText)>>),
     TagsMap(<<Tag("Env", AppText), Tag("Name", EmptyText)>>),
     TagsMap(<<Tag("name", DbText)>>),
     TagsList(<<>>),
     TagsList(<<Tag("Name", WebText)>>),
     TagsList(<<Tag("Env", AppText), Tag("NAME", DbText), Tag("name", WebText)>>),
     TagsList(<<Tag("Env", AppText)>>),
     TagsList(<<TagWithoutValue("Name")>>)}

OptionalTexts(t) == {Absent, Some(EmptyText), Some(t)}

NameRecords ==
    {[BlankRecord(id) EXCEPT !.tags = t, !.description = ds, !.isArchived = a,
                             !.hostname = h] :
        id \in {Some(ShortId), Some(EightId), Some(LongId)},
        t \in TagShapes,
        ds \in OptionalTexts(AppText),
        a \in {"absent", "false", "true"},
        h \in OptionalTexts(HostText)}

InitName ==
    /\ ExecIdle /\ BulkIdle /\ DialogIdle /\ SyncIdle /\ UiIdle
    /\ ReconStart(NameRecords, {NoResponse})

NextName == ExtractServerName

SpecName == InitName /\ [][NextName]_vars

(***************************************************************************)
(* SpecReplication: _parse_replication_status applied to the               *)
(* dataReplicationInfo of one raw record.                                  *)
(***************************************************************************)
ReplicationStates ==
    {"", "STOPPED", "FAILED", "INITIAL_SYNC", "INITIAL_SYNC_COMPLETE", "BACKLOG",
     "CONTINUOUS", "RESCAN", "DISCONNECTED"}

ReplicationInfos ==
    [is_dict : BOOLEAN, dataReplicationState : ReplicationStates,
     lagDuration : {"", "P0D", "PT5M"},
     lastSnapshotDateTime : {"", "2024-05-01T10:00:00Z"}]

InitReplication ==
    /\ ExecIdle /\ BulkIdle /\ DialogIdle /\ SyncIdle /\ UiIdle
    /\ ReconStart({[BlankRecord(Some(LongId)) EXCEPT !.dataReplicationInfo = r] :
                       r \in ReplicationInfos}, {NoResponse})

NextReplication == ParseReplicationStatus

SpecReplication == InitReplication /\ [][NextReplication]_vars

(***************************************************************************)
(* SpecStatus: _parse_server_status applied to the lifeCycle sub-record of *)
(* one record: every member name of ServerStatus, a missing state, and     *)
(* strings that are no member name.                                        *)
(***************************************************************************)
LifeCycleStates ==
    ServerStatusMembers \cup {"", "PENDING_INSTALLATION", "ready_for_test", "CUTOVER"}

StatusRecords ==
    {[BlankRecord(Some(LongId)) EXCEPT !.lifeCycleState = lc,
                                       !.lastSeenByServiceDateTime = seen] :
        lc \in LifeCycleStates,
        seen \in IsoTimes \cup {""}}

InitStatus ==
    /\ ExecIdle /\ BulkIdle /\ DialogIdle /\ SyncIdle /\ UiIdle
    /\ ReconStart(StatusRecords, {NoResponse})

NextStatus == ParseServerStatus

SpecStatus == InitStatus /\ [][NextStatus]_vars

(***************************************************************************)
(* SpecReconcile: _parse_source_server applied repeatedly to one record.   *)
(***************************************************************************)
InstanceRecords ==
    {[BlankRecord(id) EXCEPT !.launchedInstance = LaunchedInstance(li, st),
                             !.testInstanceID = ti, !.otherStrings = os,
                             !.tags = t, !.lifeCycleState = lc] :
        id \in {Absent, Some(LongId)},
        li \in OptionalTexts(InstanceId),
        st \in {NoText, "", "RUNNING"},
        ti \in {Absent, Some(InstanceId)},
        os \in {<<>>, <<WebText, InstanceId>>},
        t \in {NoTags, TagsList(<<Tag("Name", WebText), Tag("Name", DbText)>>)},
        lc \in {"", "READY_FOR_TEST"}}

InitReconcile ==
    /\ ExecIdle /\ BulkIdle /\ DialogIdle /\ SyncIdle /\ UiIdle
    /\ ReconStart(InstanceRecords, {NoResponse})

NextReconcile == ParseSourceServer

SpecReconcile == InitReconcile /\ [][NextReconcile]_vars

(***************************************************************************)
(* SpecListing: MainWindow refreshing its server list from a listing that  *)
(* answers with up to MaxRecords entries, or fails.  The records of the    *)
(* listing carry no instance id, so no instance lookup is made.            *)
(***************************************************************************)
ListedRecordA ==
    [BlankRecord(Some(LongId)) EXCEPT !.tags = TagsList(<<Tag("Name", WebText)>>),
                                      !.lifeCycleState = "READY_FOR_TEST"]

ListedRecordB ==
    [BlankRecord(Some(ShortId)) EXCEPT
        !.dataReplicationInfo = ReplicationInfo("BACKLOG", "", "")]

Entries ==
    {StrEntry, OtherEntry, DictEntry(BlankRecord(Absent)),
     DictEntry(BlankRecord(Some(EmptyText))), DictEntry(ListedRecordA),
     DictEntry(ListedRecordB)}

Listings == UNION {[1..n -> Entries] : n \in 0..MaxRecords}

Responses ==
    [kind : {"dict", "list"}, items : Listings, error : {NoText}]
    \cup [kind : {"other"}, items : {<<>>}, error : {NoText}]
    \cup FailedResponses

InitListing ==
    /\ ExecIdle /\ BulkIdle /\ DialogIdle /\ SyncIdle /\ UiIdle
    /\ ReconStart({BlankRecord(Absent)}, Responses)

NextListing ==
    \/ RefreshServers
    \/ RemoteFails

SpecListing == InitListing /\ [][NextListing]_vars

(***************************************************************************)
(* SpecSelection: the server list frame under refreshes, filter changes,   *)
(* select-all, select-none and row clicks.                                 *)
(***************************************************************************)
InitSelection ==
    /\ ExecIdle /\ BulkIdle /\ DialogIdle /\ SyncIdle /\ ReconIdle
    /\ UiStart({<<>>})

NextSelection ==
    \/ UpdateServers
    \/ ChooseStatus
    \/ SearchChange
    \/ SelectAll
    \/ SelectNone
    \/ ToggleRow

SpecSelection == InitSelection /\ [][NextSelection]_vars

(***************************************************************************)
(* SpecGate: the bulk actions frame and its dialogs, over a window that    *)
(* shows the servers of one listing, all ready for test.                   *)
(***************************************************************************)
InitGate ==
    /\ ExecIdle /\ BulkIdle /\ DialogIdle /\ SyncIdle /\ ReconIdle
    /\ UiStart({l \in ServerLists : \A i \in 1..Len(l) : l[i].status = "READY_FOR_TEST"})

NextGate ==
    \/ SelectAll
    \/ SelectNone
    \/ ToggleRow
    \/ ClickLaunchBulkTest
    \/ ClickTerminateTest
    \/ EditConfirmEntry
    \/ KeyRelease
    \/ ClickTerminate
    \/ ClickLaunch
    \/ ClickCancel

SpecGate == InitGate /\ [][NextGate]_vars

(***************************************************************************)
(* Properties of run_concurrent_with_rate_limit and RateLimiter            *)
(***************************************************************************)
Holders == {u \in Units : task[u] \in {"sleeping", "in_executor", "running"}}
InFlight == {u \in Units : task[u] \in {"in_executor", "running"}}
Started == {u \in Units : started_at[u] >= 0}
Admitted == {u \in Units : admitted_at[u] >= 0}

\* C1: the returned list has len(items) elements and, for every unit whose
\* mapping function returned a value (None included), holds that value at the
\* unit's index, whatever the completion order and whatever the other units do.
C1_ReturnedValuesAtOwnIndex ==
    returned =>
        /\ Len(results) = n_items
        /\ \A u \in Units :
             outcome[u].kind \in {"value", "none"} => results[u] = outcome[u]

\* C2: when the mapping function raises for a unit the call still returns, every
\* unit's mapping function has been invoked exactly once, and the returned list
\* holds the unit's exception at the unit's index.
C2_ExceptionAtOwnIndex ==
    returned =>
        \A u \in Units :
            /\ invocations[u] = 1
            /\ outcome[u].kind = "exception" => results[u] = ExceptionOf(u)

\* C3: at most max_concurrent units hold a slot at any moment, whether they wait
\* for rate-limit admission or have their mapping function in flight; the
\* semaphore counts exactly the free slots.
C3_ConcurrencyBound ==
    /\ Cardinality(Holders) <= max_concurrent
    /\ Cardinality(InFlight) <= max_concurrent
    /\ sem_value = max_concurrent - Cardinality(Holders)

\* every slot is taken by a unit whose mapping function runs, while a unit
\* beyond the bound waits, neither admitted by the rate limiter nor started
C3_Witness ==
    /\ rate_limit.present
    /\ Cardinality(Holders) = max_concurrent
    /\ \A u \in Holders : task[u] = "running"
    /\ \E u \in Units :
         task[u] = "created" /\ admitted_at[u] = -1 /\ started_at[u] = -1

\* C4: the timestamps the limiter records never number more than max_calls in
\* any window of time_window (two timestamps exactly time_window apart are not
\* in one window); a caller that found the window full is admitted no earlier
\* than the end of its last sleep, when the oldest active timestamp has aged out.
C4_SlidingWindow ==
    /\ \A i, j \in 1..Len(admissions) :
         j - i >= rate_limit.max_calls =>
             admissions[j] - admissions[i] >= rate_limit.time_window
    /\ Len(calls) <= rate_limit.max_calls
    /\ \A u \in Units :
         (waits[u] > 0 /\ admitted_at[u] >= 0) => admitted_at[u] >= wake_at[u]
    /\ \A u \in Units : task[u] = "sleeping" => admitted_at[u] = -1

\* a caller woke up, found the window full again, slept again and was admitted
\* exactly time_window after the timestamp that blocked it
C4_Witness ==
    \E u \in Units :
        /\ waits[u] >= 2
        /\ admitted_at[u] >= 0
        /\ \E i \in 1..Len(admissions) :
             admissions[i] + rate_limit.time_window = admitted_at[u]

\* C5 as stated: the mapping invocations started within any window of
\* time_window never number more than max_calls.
C5_StartsBoundedPerWindow ==
    \A t \in 0..MaxClock :
        Cardinality({u \in Started :
                        started_at[u] \in t..(t + rate_limit.time_window - 1)})
            <= rate_limit.max_calls

\* C5, amended: a mapping invocation starts only after its unit's own acquire()
\* has recorded a timestamp, and it is the recorded timestamps of the started
\* units, not their start times, that never number more than max_calls per window.
C5_StartsAfterOwnAdmission ==
    /\ \A u \in Started :
         /\ admitted_at[u] >= 0
         /\ admitted_at[u] <= started_at[u]
    /\ \A u \in InFlight : admitted_at[u] >= 0
    /\ \A t \in 0..MaxClock :
         Cardinality({u \in Started :
                         admitted_at[u] \in t..(t + rate_limit.time_window - 1)})
             <= rate_limit.max_calls

\* two units were admitted a full window apart and started within one window
C5_Witness ==
    \E u, v \in Started :
        /\ u # v
        /\ rate_limit.max_calls = 1
        /\ admitted_at[v] - admitted_at[u] >= rate_limit.time_window
        /\ started_at[v] - started_at[u] < rate_limit.time_window
        /\ started_at[v] >= started_at[u]

\* C6: the progress callback is called once per finished unit, the k-th call
\* with (k, len(items)), so the last of a finished run reports len(items); with
\* no items it is never called.
C6_ProgressCounts ==
    /\ \A k \in 1..Len(progress_calls) : progress_calls[k] = <<k, n_items>>
    /\ Len(progress_calls) = Cardinality({u \in Units : task[u] = "done"})
    /\ returned => Len(progress_calls) = n_items

\* a run of three units has returned after one raised and one returned a value
C6_Witness ==
    /\ returned
    /\ n_items = 3
    /\ Len(progress_calls) = 3
    /\ \E u, v \in Units : outcome[u].kind = "exception" /\ outcome[v].kind = "value"

(***************************************************************************)
(* Properties of the launch-test and terminate-test operations             *)
(***************************************************************************)
OpIds == {op_ids[i] : i \in 1..Len(op_ids)}
Failing(o) == o.kind \in {"client_error", "other_error"}

\* every remote action call was made and returned a job id or failed with a
\* ClientError carrying a message, and no configuration update failed
EveryCallClassified ==
    \A id \in OpIds :
        /\ config_outcome[id].kind \in {"ok", "not_called"}
        /\ action_outcome[id].kind \in {"ok", "client_error"}

\* C7: every progress given to the dialog has completed = successful + failed,
\* completed = len(results) and completed <= total_servers, on the normal path
\* and on the exception path.
C7_SinkProgressConsistent ==
    \A k \in 1..Len(sink_log) :
        LET p == sink_log[k]
        IN  /\ p.completed = p.successful + p.failed
            /\ p.completed = Len(p.results)
            /\ p.completed <= p.total_servers

\* the exception path gave the dialog a progress of three failures after the
\* client had already recorded a success
C7_Witness ==
    /\ op_pc = "done"
    /\ op_error # NoText
    /\ Len(mgn_results.successful) >= 1
    /\ Len(sink_log) = 1
    /\ sink_log[1].failed = 3

\* C8: once an operation over N ids has completed, the final progress has
\* completed = N, successful + failed = N, is_complete and, for N >= 1,
\* progress_percentage = 100; a progress created with total_servers = 0 has
\* progress_percentage = 0 and is complete at once.
C8_FinalProgressComplete ==
    /\ op_pc = "done" =>
         /\ Len(sink_log) >= 1
         /\ sink_log[Len(sink_log)] = progress
         /\ progress.total_servers = Len(op_ids)
         /\ progress.completed = Len(op_ids)
         /\ progress.successful + progress.failed = Len(op_ids)
         /\ is_complete(progress)
         /\ Len(op_ids) >= 1 => progress_percentage(progress) = 100
    /\ (op_pc = "calling" /\ Len(op_ids) = 0) =>
         /\ progress = NewProgress(0)
         /\ progress_percentage(progress) = 0
         /\ is_complete(progress)
    /\ (op_pc = "calling" /\ Len(op_ids) >= 1) =>
         /\ progress_percentage(progress) = 0
         /\ ~is_complete(progress)

\* a launch over three ids has completed with successes and failures
C8_Witness ==
    /\ op_pc = "done"
    /\ op_kind = "launch_test"
    /\ op_error = NoText
    /\ Len(op_ids) = 3
    /\ progress.successful >= 1
    /\ progress.failed >= 1
    /\ progress_percentage(progress) = 100

\* C9: when the remote action returns a job id for the ids of S and fails with
\* a ClientError carrying a message for every other id, the final progress has
\* successful = |S|, failed = N - |S| and exactly one result per id: success
\* with the call's job id for an id of S, failure with the call's message
\* verbatim for the others.
C9_OutcomesPreserved ==
    (op_pc = "done" /\ EveryCallClassified) =>
        LET S == {id \in OpIds : action_outcome[id].kind = "ok"}
            R == progress.results
        IN  /\ progress.successful = Cardinality(S)
            /\ progress.failed = Len(op_ids) - Cardinality(S)
            /\ Len(R) = Len(op_ids)
            /\ \A id \in OpIds :
                 /\ Cardinality({k \in 1..Len(R) : R[k].server_id = id}) = 1
                 /\ \A k \in 1..Len(R) :
                      R[k].server_id = id =>
                          /\ R[k].success = (id \in S)
                          /\ R[k].operation_type = op_kind
                          /\ id \in S => R[k].instance_id = action_outcome[id].text
                          /\ id \notin S => R[k].error_message = action_outcome[id].text

\* three ids: one launched, the two others failed with different messages
C9_Witness ==
    /\ op_pc = "done"
    /\ EveryCallClassified
    /\ Len(op_ids) = 3
    /\ progress.successful = 1
    /\ \E j, k \in 1..Len(progress.results) :
         /\ progress.results[j].error_message = "throttled"
         /\ progress.results[k].error_message = "denied"

\* C10: an error of any kind raised by the remote call for one id never becomes
\* a batch failure: a remote call has been attempted for every id of the set,
\* and a failure result carries only the error of its own id's call.
C10_ErrorsStayPerId ==
    op_pc = "done" =>
        /\ \A id \in OpIds :
             config_outcome[id] # NotCalled \/ action_outcome[id] # NotCalled
        /\ \A k \in 1..Len(progress.results) :
             LET r == progress.results[k]
             IN  ~r.success =>
                   \/ /\ Failing(action_outcome[r.server_id])
                      /\ r.error_message = action_outcome[r.server_id].text
                   \/ /\ Failing(config_outcome[r.server_id])
                      /\ r.error_message = config_outcome[r.server_id].text

\* the ids whose own remote call (configuration update or start/stop) failed
FailedIds == {id \in OpIds : Failing(action_outcome[id]) \/ Failing(config_outcome[id])}

\* C11: in the final progress of a bulk operation, failed is exactly the number
\* of ids whose remote call failed; an id whose start/stop call succeeded is
\* never reported with success = FALSE, and an id whose call was never attempted
\* is not counted as a failure.
C11_FailedCountsOwnFailures ==
    op_pc = "done" =>
        /\ progress.failed = Cardinality(FailedIds)
        /\ \A k \in 1..Len(progress.results) :
             LET r == progress.results[k]
             IN  ~r.success =>
                   /\ action_outcome[r.server_id].kind # "ok"
                   /\ \/ action_outcome[r.server_id] # NotCalled
                      \/ config_outcome[r.server_id] # NotCalled

\* C12: over N ids the dialog is given a progress after every completion: N
\* snapshots with completed = 1, 2, ..., N, the last one complete.
C12_SnapshotPerCompletion ==
    (op_pc = "done" /\ Len(op_ids) >= 1) =>
        /\ Len(sink_log) = Len(op_ids)
        /\ \A k \in 1..Len(sink_log) : sink_log[k].completed = k
        /\ is_complete(sink_log[Len(sink_log)])

\* C18: run_concurrent_sync returns len(items) elements, index i holding the
\* result of unit i or the exception unit i raised, for every interleaving of
\* the worker threads and every order in which the futures finish.
C18_SyncResultsAtOwnIndex ==
    /\ \A u \in Units : task[u] = "collected" => results[u] = outcome[u]
    /\ returned =>
         /\ Len(results) = n_items
         /\ \A u \in Units :
              /\ invocations[u] = 1
              /\ outcome[u] # Pending
              /\ results[u] = outcome[u]

\* three units were yielded last-submitted first, one of them raised and one
\* returned a value, and the call has returned
C18_Witness ==
    /\ returned
    /\ n_items = 3
    /\ collect_order = <<3, 2, 1>>
    /\ \E u, v \in Units :
         outcome[u].kind = "exception" /\ outcome[v].kind = "value"

\* C20: once cancellation has been requested on the dialog, the worker starts
\* no further unit: no remote call is made for an id whose turn comes after
\* the flag was set.
C20_NoUnitStartedAfterCancel ==
    [][is_cancelled => op_index' = op_index]_vars

\* C19: when every mapping invocation terminates and time keeps advancing, a
\* run with a rate limiter eventually returns, every unit having obtained a
\* slot, been admitted by acquire() and finished.
C19_EventuallyReturns ==
    <>(returned /\ \A u \in Units : task[u] = "done" /\ admitted_at[u] >= 0)

\* a run of two units has returned after one of them slept in acquire(),
\* holding its slot, while the other unit's call filled the window
C19_Witness ==
    /\ returned
    /\ n_items = 2
    /\ \E u \in Units : waits[u] >= 1
    /\ \A u \in Units : task[u] = "done" /\ admitted_at[u] >= 0

\* the entries get_source_servers is to reconcile: dicts with a non-empty id
WellFormedEntries(items) ==
    SelectSeq(items, LAMBDA e : /\ e.shape = "dict"
                                /\ e.record.sourceServerID.has
                                /\ e.record.sourceServerID.v # <<>>)

\* C13: get_source_servers returns exactly the reconciled records of the
\* well-formed entries of the listing, in their original order; an entry that
\* is not a mapping or has a missing or empty sourceServerID is left out, no
\* exception escapes, and the entries around it are reconciled all the same.
C13_MalformedRecordsSkipped ==
    last_fetch.response.kind \in {"dict", "list"} =>
        /\ last_fetch.result.kind = "list"
        /\ LET good == WellFormedEntries(last_fetch.response.items)
               out == last_fetch.result.value
           IN  /\ Len(out) = Len(good)
               /\ \A i \in 1..Len(good) :
                    /\ i <= Len(out)
                    /\ out[i].kind = "server"
                    /\ out[i].source_server_id = good[i].record.sourceServerID.v
                    /\ out[i] = parse_source_server(good[i].record, NotAsked)

\* a listing of three entries whose middle one has an empty id gave the two
\* records around it, in order
C13_Witness ==
    /\ last_fetch.response.kind = "dict"
    /\ last_fetch.response.items =
           <<DictEntry(ListedRecordA), DictEntry(BlankRecord(Some(EmptyText))),
             DictEntry(ListedRecordB)>>
    /\ last_fetch.result.kind = "list"
    /\ Len(servers) = 2
    /\ servers[1].source_server_id = LongId
    /\ servers[2].source_server_id = ShortId

\* C14: when the listing call fails, get_source_servers raises one error and
\* returns no list, and the refresh leaves MainWindow.servers as it was.
C14_FailedListingKeepsServers ==
    /\ last_fetch.response.kind \in {"client_error", "other_error"} =>
         /\ last_fetch.result.kind = "raised"
         /\ "value" \notin DOMAIN last_fetch.result
         /\ Len(errors_shown) = 1
         /\ servers = servers_before
    /\ errors_shown # <<>> => servers = servers_before

\* two servers had been loaded when the listing failed with a ClientError:
\* the refresh showed one error and the two servers are still there
C14_Witness ==
    /\ last_fetch.response.kind = "client_error"
    /\ last_fetch.result.kind = "raised"
    /\ Len(errors_shown) = 1
    /\ Len(servers) = 2

\* C15: the name is the first match of: the value of the Name tag (exact key
\* in a tags map, key in any case in a tags list), a non-empty description,
\* the hostname hint of a record that is not archived, "Server-" plus the
\* first 8 characters of the id (the whole id when it is shorter).
C15_NamePrecedence ==
    outputs # <<>> =>
        LET d == server_data
            name == outputs[1]
            items == d.tags.items
            inMap == {i \in 1..Len(items) : d.tags.shape = "map" /\ items[i].key = "Name"}
            inList == {i \in 1..Len(items) :
                          /\ d.tags.shape = "list"
                          /\ LowerCase[items[i].key] = "name"
                          /\ \A j \in 1..(i - 1) : LowerCase[items[j].key] # "name"}
            id == d.sourceServerID.v
        IN  IF inMap \cup inList # {}
            THEN \A i \in inMap \cup inList : items[i].has_value => name = items[i].value
            ELSE IF d.description.has /\ d.description.v # <<>>
            THEN name = d.description.v
            ELSE IF d.isArchived # "true" /\ d.hostname.has /\ d.hostname.v # <<>>
            THEN name = d.hostname.v
            ELSE /\ Len(id) >= 8 => name = ServerPrefix \o SubSeq(id, 1, 8)
                 /\ Len(id) < 8 => name = ServerPrefix \o id

\* the resolution table of dataReplicationState
ReplicationTable ==
    ("STOPPED" :> "STOPPED") @@ ("FAILED" :> "FAILED")
    @@ ("INITIAL_SYNC" :> "INITIAL_SYNC") @@ ("INITIAL_SYNC_COMPLETE" :> "REPLICATED")
    @@ ("BACKLOG" :> "BACKLOG") @@ ("CONTINUOUS" :> "CONTINUOUS")

C22_HostnameUnlessArchived ==
    outputs # <<>> =>
        LET d == server_data
            items == d.tags.items
            named == \E i \in 1..Len(items) :
                         \/ d.tags.shape = "map" /\ items[i].key = "Name"
                         \/ d.tags.shape = "list" /\ LowerCase[items[i].key] = "name"
            id == d.sourceServerID.v
        IN  (/\ ~named
             /\ ~(d.description.has /\ d.description.v # <<>>)
             /\ d.hostname.has /\ d.hostname.v # <<>>) =>
                /\ d.isArchived \in {"false", "absent"} => outputs[1] = d.hostname.v
                /\ d.isArchived = "true" =>
                     outputs[1] = ServerPrefix \o SubSeq(id, 1, Min({8, Len(id)}))

\* C23: the test instance id and state of a parsed record come from the
\* first source that yields an id: launchedInstance (its ec2InstanceID, with
\* its state when it has one), else testInstanceID with state "running",
\* else the first top-level string that starts with "i-" and is longer than
\* 10 characters with state "running"; when no source yields an id the
\* parsed record has no test instance id and no test instance state.
C23_TestInstanceSources ==
    \A i \in 1..Len(outputs) :
        outputs[i].kind = "server" =>
            LET d == server_data
                li == d.launchedInstance
                out == outputs[i]
                strings == TopLevelStrings(d)
                hits == {k \in 1..Len(strings) :
                            /\ Len(strings[k]) > 10
                            /\ SubSeq(strings[k], 1, 2) = <<"i", "-">>
                            /\ \A j \in 1..(k - 1) :
                                   ~(Len(strings[j]) > 10
                                     /\ SubSeq(strings[j], 1, 2) = <<"i", "-">>)}
            IN  IF li.ec2InstanceID.has /\ li.ec2InstanceID.v # <<>>
                THEN /\ out.test_instance_id = li.ec2InstanceID
                     /\ li.state \notin {NoText, ""} => out.test_instance_state = li.state
                ELSE IF d.testInstanceID.has /\ d.testInstanceID.v # <<>>
                THEN /\ out.test_instance_id = d.testInstanceID
                     /\ out.test_instance_state = "running"
                ELSE IF hits # {}
                THEN /\ \A k \in hits : out.test_instance_id = Some(strings[k])
                     /\ out.test_instance_state = "running"
                ELSE /\ ~(out.test_instance_id.has /\ out.test_instance_id.v # <<>>)
                     /\ out.test_instance_state \in {NoText, ""}

\* C24: a record whose test instance id was found without a state makes the
\* describe_instances lookup, and when that lookup raises the record is
\* still produced, with test_instance_state "unknown": it is not skipped and
\* the parse does not raise.
C24_LookupFailureSwallowed ==
    \A i \in 1..Len(outputs) :
        LET li == server_data.launchedInstance
            idWithoutState == /\ li.ec2InstanceID.has /\ li.ec2InstanceID.v # <<>>
                              /\ li.state \in {NoText, ""}
        IN  /\ (server_data.sourceServerID.has /\ idWithoutState) =>
                   ec2_answers[i] # NotAsked
            /\ ec2_answers[i] # NotAsked => idWithoutState
            /\ (ec2_answers[i] # NotAsked /\ ec2_answers[i].kind = "raises") =>
                   /\ outputs[i].kind = "server"
                   /\ outputs[i].test_instance_id = li.ec2InstanceID
                   /\ outputs[i].test_instance_state = "unknown"

\* describe_instances raised for a record with an instance id and no state,
\* and the record was produced with state "unknown"
C24_Witness ==
    /\ outputs # <<>>
    /\ ec2_answers[1] # NotAsked
    /\ ec2_answers[1].kind = "raises"
    /\ outputs[1].kind = "server"
    /\ outputs[1].test_instance_id = Some(InstanceId)
    /\ outputs[1].test_instance_state = "unknown"

\* C25: the raw lifecycle state equal to the name of a ServerStatus member
\* other than UNKNOWN resolves to that member; every other string, and a
\* missing state, resolves to UNKNOWN.
C25_StatusTable ==
    outputs # <<>> =>
        LET raw == server_data.lifeCycleState
        IN  IF raw \in ServerStatusMembers \ {"UNKNOWN"}
            THEN outputs[1] = raw
            ELSE outputs[1] = "UNKNOWN"

\* C26: when run_concurrent_sync has returned with max_workers >= 2, the
\* progress callback has been invoked once per item and the counts it
\* reported are exactly 1, 2, ..., N, each once, so that one invocation
\* reported (N, N).
C26_NoLostUpdate ==
    (returned /\ max_workers >= 2) =>
        /\ Len(progress_calls) = n_items
        /\ \A k \in 1..n_items :
             Cardinality({i \in 1..Len(progress_calls) :
                              progress_calls[i] = <<k, n_items>>}) = 1

\* C21: the completion of a bulk operation triggers no listing of the
\* servers: no step taken once the final progress has gone to the dialog
\* changes what the last refresh fetched, a refresh being made only on a
\* request of the caller.
C21_NoRefreshOnCompletion ==
    [][(op_pc = "done" /\ op_ids # <<>>) => last_fetch' = last_fetch]_vars

\* the ids of a sequence of results, in order
RECURSIVE ResultIds(_)
ResultIds(rs) ==
    IF rs = <<>> THEN <<>> ELSE <<Head(rs).server_id>> \o ResultIds(Tail(rs))

\* the id's start (or stop) call returned a job id
Succeeded(id) == action_outcome[id].kind = "ok"
NotSucceeded(id) == ~Succeeded(id)

\* C29: in the final progress of an operation that ran to the end with no
\* exception leaving the client, results holds the results of the succeeded
\* ids in input order, followed by those of the failed ids in input order.
C29_SuccessesThenFailures ==
    (op_pc \in {"done", "updated"} /\ op_error = NoText) =>
        ResultIds(progress.results)
            = SelectSeq(op_ids, Succeeded) \o SelectSeq(op_ids, NotSucceeded)

\* three ids were given; the first and the last failed and the second
\* succeeded, so the results are in neither input nor completion order
C29_Witness ==
    /\ op_pc = "done"
    /\ op_error = NoText
    /\ Len(op_ids) = 3
    /\ ~Succeeded(op_ids[1]) /\ Succeeded(op_ids[2]) /\ ~Succeeded(op_ids[3])
    /\ ResultIds(progress.results) = <<op_ids[2], op_ids[1], op_ids[3]>>
    /\ ResultIds(progress.results) # op_ids

(***************************************************************************)
(* Properties of the window                                                *)
(***************************************************************************)
\* C27: once the operator has confirmed a bulk launch or terminate with at
\* least one server selected, the progress dialog has been created without
\* an error and the operation has been started for the selected ids.
C27_ConfirmedOperationStarts ==
    (last_callback.kind # "none" /\ last_callback.server_ids # <<>>) =>
        /\ last_callback.progress_dialog = "created"
        /\ op_pc # "idle"
        /\ op_kind = last_callback.kind
        /\ op_ids = last_callback.server_ids

\* C28: on_terminate_test is called only from a dialog that was opened with
\* at least one server selected, and only when the confirmation entry holds
\* exactly "TERMINATE" at the click on the terminate button.
C28_TerminateOnlyThroughGate ==
    last_callback.kind = "terminate_test" =>
        /\ last_callback.server_count >= 1
        /\ last_callback.entry = "TERMINATE"

\* on_terminate_test was called from a dialog opened with two servers
\* selected, the entry holding "TERMINATE"
C28_Witness ==
    /\ last_callback.kind = "terminate_test"
    /\ last_callback.server_count = 2
    /\ last_callback.entry = "TERMINATE"
    /\ dialog = NoDialog

\* C30: every selected server is a server of the current list: the id of
\* each server of the selection is the id of a server of the latest listing.
C30_SelectionWithinList ==
    \A s \in Elements(selected_servers) :
        \E t \in Elements(frame_servers) : t.source_server_id = s.source_server_id

====
